---------------------------- MODULE Spec2Model ----------------------------
(***************************************************************************)
(* Model of the pod-lifecycle engine of macOS-vz-kubelet.                  *)
(*                                                                         *)
(* Part A: the single-flight image download manager                        *)
(*         (pkg/downloader, Manager.Download / Manager.startDownload).     *)
(* Part B: the VM resource manager (pkg/resourcemanager, MacOSClient) over *)
(*         the VM data store (internal/data/vm) and the VM substrate.      *)
(* Part C: the virtualization group (pkg/client, VzClientAPIs) of one pod  *)
(*         over Part B and the container client (DockerClient).            *)
(* Part D: the provider (pkg/provider, MacOSVZProvider): pod delete, pod   *)
(*         status and the synthesis of the pod phase.                      *)
(* Part E: the OCI store (pkg/oci, Store) and the pull loop of             *)
(*         pkg/downloader (Download) that fills it.                        *)
(* Part F: the TTY of an exec session (pkg/client MacOSSession,            *)
(*         internal/node terminal.go).                                     *)
(*                                                                         *)
(* Every goroutine is a process with a program counter; every access to a  *)
(* sync.Map, an atomic counter, a channel or a context is one step.        *)
(***************************************************************************)
EXTENDS Integers, FiniteSets, Sequences, TLC

(***************************************************************************)
(* Bounds of the model.                                                    *)
(***************************************************************************)
\* number of Download calls (subscribers) for the one image ref modelled
MaxSubs == 3

\* number of pod keys; each key is created at most once
MaxPods == 3
\* number of concurrent DeleteVirtualMachine calls
MaxDeleters == 1
\* number of DeleteVirtualizationGroup calls for the pod
MaxGrpDeleters == 2
\* what the environment does in one run: the failures it injects and the
\* contexts it cancels (together), and the DeleteVirtualMachine calls it makes
MaxEvents == 1
MaxDeletes == 1

\* the grace periods a pod delete comes with: 0..MaxGrace seconds
MaxGrace == 1
\* the containers of the pod the provider handles: the macOS container and
\* MaxContainers - 1 auxiliary containers
MaxContainers == 3

\* the Push calls made on the store
MaxPushers == 2

\* the resize messages the client of one exec session sends
MaxResizes == 3

\* internal/node: the console size used when no resize message arrives
DefaultTermWidth == 60
DefaultTermHeight == 120

\* pkg/downloader: params.MaxAttempts of a Download call that leaves it 0
DefaultMaxAttempts == 5

\* pkg/resourcemanager: the cap of the admission gate
MaxVirtualMachines == 2
\* pkg/provider: the grace period of a delete the provider decides itself
DefaultDeleteVZGroupGracePeriodSeconds == 10

Subs  == 1..MaxSubs
\* a cell (*state) is named after the subscriber whose LoadOrStore stored it
Cells == 1..MaxSubs
NoCell == 0

VARIABLES
  \* ---- Manager (downloader) ----
  downloads,    \* Manager.downloads[ref]: the cell stored for the ref, or NoCell
  subscribers,  \* state.subscribers, per cell
  onceDone,     \* state.once has run, per cell
  dlCtxDone,    \* the cell's downloadCtx is cancelled (state.cancelFunc fired)
  doneClosed,   \* state.done is closed, per cell
  stateRes,     \* state.config/state.err: "none" | "ok" | "err" | "canceled"
  fetchPc,      \* the startDownload goroutine of the cell
  \* ---- one Download call per subscriber ----
  subPc,        \* position of the subscriber inside Download
  subCell,      \* the cell LoadOrStore gave it
  subCtxDone,   \* the subscriber's own ctx is cancelled
  subRet,       \* what Download returned: [kind, cell]
  \* ---- VirtualMachineData ----
  vmData,       \* data: pod key -> VirtualMachineInfo, or NoInfo
  counter,      \* counter: the atomic number of stored records
  \* ---- the VM substrate, per pod (the instance its creation task built) ----
  vz,           \* "none" (not constructed) | "stopped" | "starting" |
                \* "running" | "error"
  \* ---- handleVirtualMachineCreation, one goroutine per accepted create ----
  taskPc,       \* position of the creation task
  taskSnap,     \* the record UpdateVirtualMachineInfo loaded and will store
  taskErr,      \* the function's err: "nil" | "canceled" | "error"
  ctxDone,      \* the ctx given to CreateVirtualMachine is cancelled
  dlCancel,     \* the task's downloadCtx cancel func has been called
  \* ---- DeleteVirtualMachine calls ----
  delPc,        \* position of the call
  delPod,       \* the pod it deletes
  delInfo,      \* info, the copy of the record it read
  delErr,       \* err, its return value: "nil" | "error"
  \* ---- what the environment has done so far ----
  nFaults,      \* failures injected
  nDeletes,     \* DeleteVirtualMachine calls made
  nCancels,     \* contexts cancelled
  \* ---- what the creation task leaves for its observers, per pod ----
  ip,           \* instance.IPAddress has been set
  events,       \* the failure events it gave to the event recorder
  \* ---- VzClientAPIs: the group of pod GP ----
  extras,       \* c.extras holds an entry for the key
  rootDir,      \* extras.rootDir exists on disk
  crPc,         \* position of the CreateVirtualizationGroup call
  crErr,        \* what it returned: "none" | "nil" | "error"
  vmSub,        \* the errgroup's VM task
  ctrSub,       \* the errgroup's container task
  \* ---- DockerClient ----
  ctrData,      \* ContainerData: the pod's entry, with its one container
  ctrPc,        \* position of handleDockerContainerCreation
  docker,       \* the container exists in the Docker daemon
  \* ---- extras.deleteOnce, extras.deleteDone ----
  onceState,    \* deleteOnce: "new" | "running" | "done"
  chanBuf,      \* the value buffered in deleteDone, or "empty"
  chanClosed,   \* deleteDone is closed
  teardowns,    \* how many times the body of deleteOnce was entered
  \* ---- DeleteVirtualizationGroup calls ----
  gdPc,         \* position of the call
  gdRes,        \* what it returned: "none" | "nil" | "error" | "notfound"
  overlap,      \* some call began while another one was in progress
  gdAfterOk,    \* the call began after another one had returned nil
  \* ---- RemoveContainers, called by the teardown ----
  rcPc,         \* position of the call
  rcErr,        \* what it returns: "nil" | "error" | "notfound"
  \* ---- a second CreateVirtualizationGroup call for the key ----
  dup,          \* position, its two tasks, what it returned, and whether
                \* the entry of the key in c.extras is the one it stored
  \* ---- MacOSVZProvider.handleDeletePod ----
  pdPc,         \* position of the goroutine
  pdPhase,      \* pod.Status.Phase
  pdGrace,      \* gracePeriod
  pdHooks,      \* the containers that have a PreStop exec command
  pdTodo,       \* the hook goroutines of handlePreStopHooks still to run
  hooksRun,     \* the containers whose PreStop command was executed
  hooksFailed,  \* those whose command failed (FailedPreStopHook recorded)
  canDeleteFast,
  pdGrpRes,     \* DeleteVirtualizationGroup: "none" (not called) | "nil" | "error"
  pdGrpGrace,   \* the grace period it was called with
  k8sDeleted,   \* the pod was deleted in the control plane
  k8sGrace,     \* with this GracePeriodSeconds
  \* ---- MacOSVZProvider.GetPodStatus ----
  gsPc,         \* position of the call
  gsVM,         \* vg.MacOSVirtualMachine.State()
  gsIP,         \* vg.MacOSVirtualMachine.IPAddress() != ""
  gsCtrs,       \* vg.Containers: the sequence of their State.Status
  gsDelTs,      \* pod.DeletionTimestamp != nil
  gsPhase,      \* ps.Phase
  gsConds,      \* ps.Conditions: the status of PodInitialized and PodReady
  gsRet,        \* what is returned: "none" | "status" | "error"
  gsDeleted,    \* it called DeleteVirtualizationGroup
  gsGrace,      \* with this grace period
  \* ---- oci.Store ----
  store,        \* the Store: closed, nameToStatus (exists), digestToPath,
                \* mediaTypeToPath, tmpFiles
  pushes,       \* the Push calls: position, descriptor, what it returned
  ret,          \* Close, or the last other call made on the store once it
                \* is closed, and what it returned: [op, res]
  \* ---- downloader.Download ----
  download,     \* one Download call: position, backoff.Steps, the pulls
                \* made, the FailedToPullImage events, ctx, err
  \* ---- MacOSSession ----
  session       \* one exec session: position of SetupSessionIO, attach.TTY(),
                \* ctx, the messages offered on attach.Resize() and how many
                \* were received, consoleSize, the HandleTerminalResizing
                \* goroutine, the messages given to WindowChange

dlVars == <<downloads, subscribers, onceDone, dlCtxDone, doneClosed, stateRes,
            fetchPc, subPc, subCell, subCtxDone, subRet>>

taskVars == <<taskPc, taskSnap, taskErr>>
delVars == <<delPc, delPod, delInfo, delErr>>
budget == <<nFaults, nDeletes, nCancels>>

obsVars == <<ip, events>>

vmVars == <<vmData, counter, vz, taskVars, ctxDone, dlCancel, delVars, budget,
            obsVars>>

crVars == <<crPc, crErr, vmSub, ctrSub>>
ctrVars == <<ctrData, ctrPc, docker>>
onceVars == <<onceState, chanBuf, chanClosed, teardowns>>
gdVars == <<gdPc, gdRes, overlap, gdAfterOk>>
rcVars == <<rcPc, rcErr>>

dupVars == <<dup>>

grpVars == <<extras, rootDir, crVars, ctrVars, onceVars, gdVars, rcVars,
             dupVars>>

pdVars == <<pdPc, pdPhase, pdGrace, pdHooks, pdTodo, hooksRun, hooksFailed,
            canDeleteFast, pdGrpRes, pdGrpGrace, k8sDeleted, k8sGrace>>
gsVars == <<gsPc, gsVM, gsIP, gsCtrs, gsDelTs, gsPhase, gsConds, gsRet,
            gsDeleted, gsGrace>>
provVars == <<pdVars, gsVars>>
ociVars == <<store, pushes, ret>>
pullVars == <<download>>
ttyVars == <<session>>

\* what the actions of one part leave alone
notDL == <<vmVars, grpVars, provVars, ociVars, pullVars, ttyVars>>
notVM == <<dlVars, grpVars, provVars, ociVars, pullVars, ttyVars>>
notGrp == <<dlVars, provVars, ociVars, pullVars, ttyVars, dupVars>>
notDup == <<crVars, ctrVars, onceVars, gdVars, rcVars, vmVars, dlVars,
            provVars, ociVars, pullVars, ttyVars>>
notProv == <<dlVars, vmVars, grpVars, ociVars, pullVars, ttyVars>>
notOCI == <<dlVars, vmVars, grpVars, provVars, pullVars, ttyVars>>
notPull == <<dlVars, vmVars, grpVars, provVars, ttyVars>>
notTTY == <<dlVars, vmVars, grpVars, provVars, ociVars, pullVars>>

vars == <<dlVars, vmVars, grpVars, provVars, ociVars, pullVars, ttyVars>>

NoRet == [kind |-> "none", cell |-> NoCell]

InitDL ==
  /\ downloads = NoCell
  /\ subscribers = [c \in Cells |-> 0]
  /\ onceDone = [c \in Cells |-> FALSE]
  /\ dlCtxDone = [c \in Cells |-> FALSE]
  /\ doneClosed = [c \in Cells |-> FALSE]
  /\ stateRes = [c \in Cells |-> "none"]
  /\ fetchPc = [c \in Cells |-> "idle"]
  /\ subPc = [s \in Subs |-> "idle"]
  /\ subCell = [s \in Subs |-> NoCell]
  /\ subCtxDone = [s \in Subs |-> FALSE]
  /\ subRet = [s \in Subs |-> NoRet]

(***************************************************************************)
(* Manager.Download, one step per shared-memory access.                    *)
(***************************************************************************)
\* value, _ := m.downloads.LoadOrStore(ref, &state{...})
LoadOrStoreCell(s) ==
  /\ subPc[s] = "idle"
  /\ LET c == IF downloads = NoCell THEN s ELSE downloads IN
       /\ downloads' = c
       /\ subCell' = [subCell EXCEPT ![s] = c]
  /\ subPc' = [subPc EXCEPT ![s] = "add"]
  /\ UNCHANGED <<subscribers, onceDone, dlCtxDone, doneClosed, stateRes,
                 fetchPc, subCtxDone, subRet>>
  /\ UNCHANGED notDL

\* state.subscribers.Add(1)
SubAdd(s) ==
  /\ subPc[s] = "add"
  /\ subscribers' = [subscribers EXCEPT ![subCell[s]] = @ + 1]
  /\ subPc' = [subPc EXCEPT ![s] = "once"]
  /\ UNCHANGED <<downloads, onceDone, dlCtxDone, doneClosed, stateRes,
                 fetchPc, subCell, subCtxDone, subRet>>
  /\ UNCHANGED notDL

\* state.once.Do(func() { downloadCtx, state.cancelFunc = WithCancel(Background());
\*                        go m.startDownload(downloadCtx, state, ...) })
SubOnce(s) ==
  /\ subPc[s] = "once"
  /\ LET c == subCell[s] IN
       IF onceDone[c]
         THEN UNCHANGED <<onceDone, fetchPc>>
         ELSE /\ onceDone' = [onceDone EXCEPT ![c] = TRUE]
              /\ fetchPc' = [fetchPc EXCEPT ![c] = "running"]
  /\ subPc' = [subPc EXCEPT ![s] = "wait"]
  /\ UNCHANGED <<downloads, subscribers, dlCtxDone, doneClosed, stateRes,
                 subCell, subCtxDone, subRet>>
  /\ UNCHANGED notDL

\* select { case <-ctx.Done(): return cfg, d, context.Canceled
SubWaitCancelled(s) ==
  /\ subPc[s] = "wait"
  /\ subCtxDone[s]
  /\ subRet' = [subRet EXCEPT ![s] = [kind |-> "canceled", cell |-> NoCell]]
  /\ subPc' = [subPc EXCEPT ![s] = "leave"]
  /\ UNCHANGED <<downloads, subscribers, onceDone, dlCtxDone, doneClosed,
                 stateRes, fetchPc, subCell, subCtxDone>>
  /\ UNCHANGED notDL

\*          case <-state.done: return state.config, state.duration, state.err }
SubWaitDone(s) ==
  /\ subPc[s] = "wait"
  /\ doneClosed[subCell[s]]
  /\ subRet' = [subRet EXCEPT ![s] =
                  [kind |-> stateRes[subCell[s]],
                   cell |-> IF stateRes[subCell[s]] = "canceled"
                              THEN NoCell ELSE subCell[s]]]
  /\ subPc' = [subPc EXCEPT ![s] = "leave"]
  /\ UNCHANGED <<downloads, subscribers, onceDone, dlCtxDone, doneClosed,
                 stateRes, fetchPc, subCell, subCtxDone>>
  /\ UNCHANGED notDL

\* defer: if state.subscribers.Add(-1) == 0 {
SubLeave(s) ==
  /\ subPc[s] = "leave"
  /\ subscribers' = [subscribers EXCEPT ![subCell[s]] = @ - 1]
  /\ subPc' = [subPc EXCEPT ![s] =
                 IF subscribers[subCell[s]] - 1 = 0 THEN "delete" ELSE "returned"]
  /\ UNCHANGED <<downloads, onceDone, dlCtxDone, doneClosed, stateRes,
                 fetchPc, subCell, subCtxDone, subRet>>
  /\ UNCHANGED notDL

\*          m.downloads.Delete(ref)
SubDelete(s) ==
  /\ subPc[s] = "delete"
  /\ downloads' = NoCell
  /\ subPc' = [subPc EXCEPT ![s] = "cancel"]
  /\ UNCHANGED <<subscribers, onceDone, dlCtxDone, doneClosed, stateRes,
                 fetchPc, subCell, subCtxDone, subRet>>
  /\ UNCHANGED notDL

\*          state.cancelFunc() }
SubCancelSkipped(s) ==
  /\ subPc[s] = "cancel"
  /\ subPc' = [subPc EXCEPT ![s] = "returned"]
  /\ UNCHANGED <<downloads, subscribers, onceDone, dlCtxDone, doneClosed,
                 stateRes, fetchPc, subCell, subCtxDone, subRet>>
  /\ UNCHANGED notDL

SubCancel(s) ==
  /\ subPc[s] = "cancel"
  /\ dlCtxDone' = [dlCtxDone EXCEPT ![subCell[s]] = TRUE]
  /\ subPc' = [subPc EXCEPT ![s] = "returned"]
  /\ UNCHANGED <<downloads, subscribers, onceDone, doneClosed, stateRes,
                 fetchPc, subCell, subCtxDone, subRet>>
  /\ UNCHANGED notDL

\* the caller cancels the ctx it passed to Download.  Download reads ctx only
\* in its select, so a cancellation before the call is the same as one during it.
CtxCancel(s) ==
  /\ ~subCtxDone[s]
  /\ subPc[s] = "wait"
  /\ subCtxDone' = [subCtxDone EXCEPT ![s] = TRUE]
  /\ UNCHANGED <<downloads, subscribers, onceDone, dlCtxDone, doneClosed,
                 stateRes, fetchPc, subPc, subCell, subRet>>
  /\ UNCHANGED notDL

(***************************************************************************)
(* Manager.startDownload: the fetch task of a cell.                        *)
(***************************************************************************)
\* what startDownload leaves in state.err after
\*   state.config, state.err = Download(ctx, ...)
\*   if ctx.Err() != nil { state.err = ctx.Err() }
FetchResult(c, outcome) == IF dlCtxDone[c] THEN "canceled" ELSE outcome

\* Download(ctx, ...) returns on its own: success, or all attempts failed
FetchReturn(c) ==
  /\ fetchPc[c] = "running"
  /\ \E outcome \in {"ok", "err"} :
       stateRes' = [stateRes EXCEPT ![c] = FetchResult(c, outcome)]
  /\ fetchPc' = [fetchPc EXCEPT ![c] = "returned"]
  /\ UNCHANGED <<downloads, subscribers, onceDone, dlCtxDone, doneClosed,
                 subPc, subCell, subCtxDone, subRet>>
  /\ UNCHANGED notDL

\* Download(ctx, ...) returns because its ctx is cancelled
FetchAbort(c) ==
  /\ fetchPc[c] = "running"
  /\ dlCtxDone[c]
  /\ stateRes' = [stateRes EXCEPT ![c] = FetchResult(c, "err")]
  /\ fetchPc' = [fetchPc EXCEPT ![c] = "returned"]
  /\ UNCHANGED <<downloads, subscribers, onceDone, dlCtxDone, doneClosed,
                 subPc, subCell, subCtxDone, subRet>>
  /\ UNCHANGED notDL

\* defer: close(state.done); state.cancelFunc()
FetchClose(c) ==
  /\ fetchPc[c] = "returned"
  /\ doneClosed' = [doneClosed EXCEPT ![c] = TRUE]
  /\ dlCtxDone' = [dlCtxDone EXCEPT ![c] = TRUE]
  /\ fetchPc' = [fetchPc EXCEPT ![c] = "finished"]
  /\ UNCHANGED <<downloads, subscribers, onceDone, stateRes,
                 subPc, subCell, subCtxDone, subRet>>
  /\ UNCHANGED notDL

\* the steps a subscriber's goroutine takes on its own
SubStep(s) ==
  \/ SubAdd(s)
  \/ SubOnce(s)
  \/ SubWaitCancelled(s)
  \/ SubWaitDone(s)
  \/ SubLeave(s)
  \/ SubDelete(s)
  \/ SubCancel(s)

NextDL ==
  \/ \E s \in Subs : LoadOrStoreCell(s)
  \/ \E s \in Subs : SubStep(s)
  \/ \E s \in Subs : CtxCancel(s)
  \/ \E c \in Cells : FetchReturn(c)
  \/ \E c \in Cells : FetchAbort(c)
  \/ \E c \in Cells : FetchClose(c)

(***************************************************************************)
(* Part B: MacOSClient over VirtualMachineData.                            *)
(***************************************************************************)
Pods == 1..MaxPods
Dels == 1..MaxDeleters
NoPod == 0

\* a key that is not in the data map
NoInfo == [present |-> FALSE, cancel |-> FALSE, inst |-> FALSE, err |-> "nil"]
\* VirtualMachineInfo{Resource: resource.NewMacOSVirtualMachine(params.Env)}
NewInfo == [present |-> TRUE, cancel |-> FALSE, inst |-> FALSE, err |-> "nil"]

InitVM ==
  /\ vmData = [p \in Pods |-> NoInfo]
  /\ counter = 0
  /\ vz = [p \in Pods |-> "none"]
  /\ taskPc = [p \in Pods |-> "none"]
  /\ taskSnap = [p \in Pods |-> NoInfo]
  /\ taskErr = [p \in Pods |-> "nil"]
  /\ ctxDone = [p \in Pods |-> FALSE]
  /\ dlCancel = [p \in Pods |-> FALSE]
  /\ delPc = [d \in Dels |-> "idle"]
  /\ delPod = [d \in Dels |-> NoPod]
  /\ delInfo = [d \in Dels |-> NoInfo]
  /\ delErr = [d \in Dels |-> "nil"]
  /\ nFaults = 0
  /\ nDeletes = 0
  /\ nCancels = 0
  /\ events = [p \in Pods |-> {}]
  /\ ip = [p \in Pods |-> FALSE]

\* a State() that asks the instance before it looks at the error
StateInstanceFirst(info, v) ==
  IF ~info.inst
    THEN IF info.err # "nil" THEN "Failed" ELSE "Preparing"
    ELSE CASE v = "starting" -> "Starting"
           [] v = "running"  -> "Running"
           [] v = "stopping" -> "Terminating"
           [] v = "stopped"  -> "Terminated"
           [] OTHER          -> "Failed"

\* MacOSVirtualMachine.State(): the state derived from a record and from the
\* substrate state of its instance
State(info, v) ==
  IF info.err # "nil" THEN "Failed"
  ELSE IF ~info.inst THEN "Preparing"
  ELSE CASE v = "starting" -> "Starting"
         [] v = "running"  -> "Running"
         [] v = "stopping" -> "Terminating"
         [] v = "stopped"  -> "Terminated"
         [] OTHER          -> "Failed"

\* VirtualMachineData.Count()
Count == counter

\* canProceedWithVirtualMachineCreation
canProceedWithVirtualMachineCreation == Count <= MaxVirtualMachines

\* the environment injects a failure (a pull error, a substrate error, a
\* failing hook, a guest that stops)
Fault == nFaults + nCancels < MaxEvents /\ nFaults' = nFaults + 1
NoFault == nFaults' = nFaults

\* c.eventRecorder.<event>(ctx, ...) for the container of pod p
Record(p, event) == events' = [events EXCEPT ![p] = @ \cup {event}]

(***************************************************************************)
(* MacOSClient.CreateVirtualMachine                                        *)
(***************************************************************************)
\* c.data.GetOrCreateVirtualMachineInfo: d.data.LoadOrStore(key, &info) of a
\* key that is absent.  (With the key present the call changes nothing and
\* returns InvalidInput.)  The step belongs to the caller.
CreateVirtualMachine(p) ==
  /\ taskPc[p] = "none"
  /\ vmData[p] = NoInfo
  /\ vmData' = [vmData EXCEPT ![p] = NewInfo]
  /\ taskPc' = [taskPc EXCEPT ![p] = "incr"]
  /\ UNCHANGED <<obsVars, counter, vz, taskSnap, taskErr, ctxDone, dlCancel, delVars,
                 budget>>

\* d.incrementCounter(), then go c.handleVirtualMachineCreation(ctx, params)
incrementCounter(p) ==
  /\ taskPc[p] = "incr"
  /\ counter' = counter + 1
  /\ taskPc' = [taskPc EXCEPT ![p] = "cLoad"]
  /\ UNCHANGED <<obsVars, vmData, vz, taskSnap, taskErr, ctxDone, dlCancel, delVars,
                 budget, notVM>>

(***************************************************************************)
(* VirtualMachineData.UpdateVirtualMachineInfo is a Load followed by a     *)
(* Store; the task sits between the two at the "...Store" positions.       *)
(***************************************************************************)
\* val, ok := d.data.Load(key); absent -> ifAbsent, else keep val -> ifLoaded
UpdateLoad(p, ifLoaded, ifAbsent) ==
  IF vmData[p] = NoInfo
    THEN /\ taskPc' = [taskPc EXCEPT ![p] = ifAbsent]
         /\ UNCHANGED taskSnap
    ELSE /\ taskPc' = [taskPc EXCEPT ![p] = ifLoaded]
         /\ taskSnap' = [taskSnap EXCEPT ![p] = vmData[p]]

\* d.data.Store(key, &newVal)
UpdateStore(p, newVal, next) ==
  /\ vmData' = [vmData EXCEPT ![p] = newVal]
  /\ taskSnap' = [taskSnap EXCEPT ![p] = NoInfo]
  /\ taskPc' = [taskPc EXCEPT ![p] = next]

(***************************************************************************)
(* MacOSClient.handleVirtualMachineCreation                                *)
(***************************************************************************)
\* Update(i.DownloadCancelFunc = cancel): the Load; !updated -> return
TaskCancelLoad(p) ==
  /\ taskPc[p] = "cLoad"
  /\ UpdateLoad(p, "cStore", "fLoad")
  /\ UNCHANGED <<obsVars, vmData, counter, vz, taskErr, ctxDone, dlCancel, delVars,
                 budget, notVM>>

\* Update(i.DownloadCancelFunc = cancel): the Store
TaskCancelStore(p) ==
  /\ taskPc[p] = "cStore"
  /\ UpdateStore(p, [taskSnap[p] EXCEPT !.cancel = TRUE], "download")
  /\ UNCHANGED <<obsVars, counter, vz, taskErr, ctxDone, dlCancel, delVars, budget,
                 notVM>>

\* a handler that reports BackOffPullImage for every err of Download
TaskDownloadLoud(p) ==
  /\ taskPc[p] = "download"
  /\ \E outcome \in {"ok", "error", "canceled"} :
       /\ outcome = "canceled" => (ctxDone[p] \/ dlCancel[p])
       /\ IF outcome = "error" THEN Fault ELSE NoFault
       /\ IF outcome = "ok"
            THEN /\ taskPc' = [taskPc EXCEPT ![p] = "gate"]
                 /\ UNCHANGED taskErr
            ELSE /\ taskPc' = [taskPc EXCEPT ![p] = "fLoad"]
                 /\ taskErr' = [taskErr EXCEPT ![p] = outcome]
       /\ IF outcome # "ok" THEN Record(p, "BackOffPullImage")
                           ELSE UNCHANGED events
  /\ UNCHANGED <<ip, vmData, counter, vz, taskSnap, ctxDone, dlCancel, delVars,
                 nDeletes, nCancels, notVM>>

\* cfg, duration, err := c.downloadManager.Download(downloadCtx, ...):
\* Cancelled needs downloadCtx (a child of ctx) cancelled; any err -> return,
\* after BackOffPullImage unless errors.Is(err, context.Canceled)
TaskDownload(p) ==
  /\ taskPc[p] = "download"
  /\ \E outcome \in {"ok", "error", "canceled"} :
       /\ outcome = "canceled" => (ctxDone[p] \/ dlCancel[p])
       /\ IF outcome = "error" THEN Fault ELSE NoFault
       /\ IF outcome = "ok"
            THEN /\ taskPc' = [taskPc EXCEPT ![p] = "gate"]
                 /\ UNCHANGED taskErr
            ELSE /\ taskPc' = [taskPc EXCEPT ![p] = "fLoad"]
                 /\ taskErr' = [taskErr EXCEPT ![p] = outcome]
       /\ IF outcome = "error" THEN Record(p, "BackOffPullImage")
                              ELSE UNCHANGED events
  /\ UNCHANGED <<ip, vmData, counter, vz, taskSnap, ctxDone, dlCancel, delVars,
                 nDeletes, nCancels, notVM>>

\* waitForCreationProceed: if c.canProceedWithVirtualMachineCreation()
\* { return nil }, else block in the select
TaskGate(p) ==
  /\ taskPc[p] = "gate"
  /\ taskPc' = [taskPc EXCEPT ![p] =
                  IF canProceedWithVirtualMachineCreation THEN "setup"
                  ELSE "gateWait"]
  /\ UNCHANGED <<obsVars, vmData, counter, vz, taskSnap, taskErr, ctxDone, dlCancel,
                 delVars, budget, notVM>>

\* waitForCreationProceed: case <-ticker.C: continue
TaskGateTick(p) ==
  /\ taskPc[p] = "gateWait"
  /\ taskPc' = [taskPc EXCEPT ![p] = "gate"]
  /\ UNCHANGED <<obsVars, vmData, counter, vz, taskSnap, taskErr, ctxDone, dlCancel,
                 delVars, budget, notVM>>

\* waitForCreationProceed: case <-ctx.Done(): return ctx.Err()
TaskGateCancelled(p) ==
  /\ taskPc[p] = "gateWait"
  /\ ctxDone[p]
  /\ taskErr' = [taskErr EXCEPT ![p] = "canceled"]
  /\ taskPc' = [taskPc EXCEPT ![p] = "fLoad"]
  /\ UNCHANGED <<obsVars, vmData, counter, vz, taskSnap, ctxDone, dlCancel, delVars,
                 budget, notVM>>

\* createVirtualMachineInstance: setupVM fails -> FailedToCreateContainer,
\* return err
TaskSetupFails(p) ==
  /\ taskPc[p] = "setup"
  /\ Fault
  /\ Record(p, "FailedToCreateContainer")
  /\ taskErr' = [taskErr EXCEPT ![p] = "error"]
  /\ taskPc' = [taskPc EXCEPT ![p] = "fLoad"]
  /\ UNCHANGED <<ip, vmData, counter, vz, taskSnap, ctxDone, dlCancel, delVars,
                 nDeletes, nCancels, notVM>>

\* createVirtualMachineInstance: setupVM builds the instance (a new vz
\* machine is Stopped), then Update(SetInstance(vm)): the Load.  The result
\* of the Update is ignored.
TaskSetup(p) ==
  /\ taskPc[p] = "setup"
  /\ vz' = [vz EXCEPT ![p] = "stopped"]
  /\ UpdateLoad(p, "iStore", "start")
  /\ UNCHANGED <<obsVars, vmData, counter, taskErr, ctxDone, dlCancel, delVars,
                 budget, notVM>>

\* Update(SetInstance(vm)): the Store
TaskInstanceStore(p) ==
  /\ taskPc[p] = "iStore"
  /\ UpdateStore(p, [taskSnap[p] EXCEPT !.inst = TRUE], "start")
  /\ UNCHANGED <<obsVars, counter, vz, taskErr, ctxDone, dlCancel, delVars, budget,
                 notVM>>

\* vm.Start(ctx): i.VirtualMachine.Start(opts...) is called
TaskStart(p) ==
  /\ taskPc[p] = "start"
  /\ vz' = [vz EXCEPT ![p] = "starting"]
  /\ taskPc' = [taskPc EXCEPT ![p] = "starting"]
  /\ UNCHANGED <<obsVars, vmData, counter, taskSnap, taskErr, ctxDone, dlCancel,
                 delVars, budget, notVM>>

\* i.VirtualMachine.Start returns nil: the machine runs
TaskStarted(p) ==
  /\ taskPc[p] = "starting"
  /\ vz[p] = "starting"
  /\ vz' = [vz EXCEPT ![p] = "running"]
  /\ taskPc' = [taskPc EXCEPT ![p] = "ip"]
  /\ UNCHANGED <<obsVars, vmData, counter, taskSnap, taskErr, ctxDone, dlCancel,
                 delVars, budget, notVM>>

\* i.VirtualMachine.Start returns an error -> FailedToStartContainer, return:
\* the substrate fails the start, or the machine was stopped meanwhile
TaskStartFails(p) ==
  /\ taskPc[p] = "starting"
  /\ IF vz[p] = "starting"
       THEN /\ Fault
            /\ \E v \in {"stopped", "error"} : vz' = [vz EXCEPT ![p] = v]
       ELSE /\ NoFault
            /\ UNCHANGED vz
  /\ Record(p, "FailedToStartContainer")
  /\ taskErr' = [taskErr EXCEPT ![p] = "error"]
  /\ taskPc' = [taskPc EXCEPT ![p] = "fLoad"]
  /\ UNCHANGED <<ip, vmData, counter, taskSnap, ctxDone, dlCancel, delVars,
                 nDeletes, nCancels, notVM>>

\* i.retrieveIPAddress(ctx) finds the address of the running machine:
\* i.IPAddress = ip
TaskIPAddress(p) ==
  /\ taskPc[p] = "ip"
  /\ vz[p] = "running"
  /\ ip' = [ip EXCEPT ![p] = TRUE]
  /\ taskPc' = [taskPc EXCEPT ![p] = "post"]
  /\ UNCHANGED <<events, vmData, counter, vz, taskSnap, taskErr, ctxDone, dlCancel,
                 delVars, budget, notVM>>

\* i.retrieveIPAddress(ctx) fails (ctx done, machine stopped, or a lookup
\* that times out): _ = i.VirtualMachine.Stop(); return the error
TaskIPAddressFails(p) ==
  /\ taskPc[p] = "ip"
  /\ IF ctxDone[p] \/ vz[p] # "running" THEN NoFault ELSE Fault
  /\ vz' = [vz EXCEPT ![p] = "stopped"]
  /\ Record(p, "FailedToStartContainer")
  /\ taskErr' = [taskErr EXCEPT ![p] = "error"]
  /\ taskPc' = [taskPc EXCEPT ![p] = "fLoad"]
  /\ UNCHANGED <<ip, vmData, counter, taskSnap, ctxDone, dlCancel, delVars,
                 nDeletes, nCancels, notVM>>

\* after StartedContainer: no PostStartAction, or execPostStartAction with
\* its verdict (ctx.Err() when the ctx is cancelled, the error of the exec
\* otherwise) assigned to the function's err and, if err != nil,
\* FailedPostStartHook; then the deferred finalizeVirtualMachineInfo: the
\* Load of its Update
TaskPostStart(p) ==
  /\ taskPc[p] = "post"
  /\ \E outcome \in {"nil", "error", "canceled"} :
       /\ outcome = "canceled" => ctxDone[p]
       /\ outcome = "error" => ~ctxDone[p]
       /\ IF outcome = "error" /\ vz[p] = "running" THEN Fault ELSE NoFault
       /\ taskErr' = [taskErr EXCEPT ![p] = outcome]
       /\ IF outcome # "nil" THEN Record(p, "FailedPostStartHook")
                            ELSE UNCHANGED events
  /\ UpdateLoad(p, "fStore", "exited")
  /\ UNCHANGED <<ip, vmData, counter, vz, ctxDone, dlCancel, delVars,
                 nDeletes, nCancels, notVM>>

\* finalizeVirtualMachineInfo after an early return: the Load of its Update
finalizeVirtualMachineInfo(p) ==
  /\ taskPc[p] = "fLoad"
  /\ UpdateLoad(p, "fStore", "exited")
  /\ UNCHANGED <<obsVars, vmData, counter, vz, taskErr, ctxDone, dlCancel, delVars,
                 budget, notVM>>

\* finalizeVirtualMachineInfo: i.DownloadCancelFunc = nil;
\* if err != nil { i.Resource.SetError(err) }; the Store
TaskFinalStore(p) ==
  /\ taskPc[p] = "fStore"
  /\ UpdateStore(p, [taskSnap[p] EXCEPT
                       !.cancel = FALSE,
                       !.err = IF taskErr[p] # "nil" THEN taskErr[p] ELSE @],
                 "exited")
  /\ UNCHANGED <<obsVars, counter, vz, taskErr, ctxDone, dlCancel, delVars, budget,
                 notVM>>

\* what vz's VirtualMachine.Stop() can leave behind: the machine stopped, or,
\* when the call fails, the machine as it was
StopOutcomes(v) == IF v = "stopped" THEN {"stopped"} ELSE {"stopped", v}

\* the steps of the creation goroutine of pod p
TaskStep(p) ==
  \/ incrementCounter(p)
  \/ TaskCancelLoad(p)
  \/ TaskCancelStore(p)
  \/ TaskDownload(p)
  \/ TaskGate(p)
  \/ TaskGateTick(p)
  \/ TaskGateCancelled(p)
  \/ TaskSetupFails(p)
  \/ TaskSetup(p)
  \/ TaskInstanceStore(p)
  \/ TaskStart(p)
  \/ TaskStarted(p)
  \/ TaskStartFails(p)
  \/ TaskIPAddress(p)
  \/ TaskIPAddressFails(p)
  \/ TaskPostStart(p)
  \/ finalizeVirtualMachineInfo(p)
  \/ TaskFinalStore(p)

\* the guest shuts down or crashes: vz reports the machine Stopped
GuestStopped(p) ==
  /\ vz[p] = "running"
  /\ Fault
  /\ vz' = [vz EXCEPT ![p] = "stopped"]
  /\ UNCHANGED <<obsVars, vmData, counter, taskVars, ctxDone, dlCancel, delVars,
                 nDeletes, nCancels, notVM>>

\* the ctx passed to CreateVirtualMachine is cancelled; the creation task
\* reads it where it waits (Download, the gate's select, the IP lookup, the
\* post-start exec)
CtxCancelled(p) ==
  /\ taskPc[p] \in {"download", "gateWait", "ip", "post"}
  /\ ~ctxDone[p]
  /\ nFaults + nCancels < MaxEvents
  /\ nCancels' = nCancels + 1
  /\ ctxDone' = [ctxDone EXCEPT ![p] = TRUE]
  /\ UNCHANGED <<obsVars, vmData, counter, vz, taskVars, dlCancel, delVars,
                 nFaults, nDeletes, notVM>>

(***************************************************************************)
(* MacOSClient.DeleteVirtualMachine                                        *)
(***************************************************************************)
\* a caller invokes DeleteVirtualMachine for pod p (the caller's own step)
DeleteVirtualMachine(d, p) ==
  /\ delPc[d] = "idle"
  /\ nDeletes < MaxDeletes
  /\ nDeletes' = nDeletes + 1
  /\ delPod' = [delPod EXCEPT ![d] = p]
  /\ delPc' = [delPc EXCEPT ![d] = "get"]
  /\ UNCHANGED <<obsVars, vmData, counter, vz, taskVars, ctxDone, dlCancel, delInfo,
                 delErr, nFaults, nCancels>>

\* info, ok := c.data.GetVirtualMachineInfo(...); !ok -> return nil;
\* defer c.data.RemoveVirtualMachineInfo(...)
DelGet(d) ==
  /\ delPc[d] = "get"
  /\ IF vmData[delPod[d]] = NoInfo
       THEN /\ delPc' = [delPc EXCEPT ![d] = "done"]
            /\ UNCHANGED delInfo
       ELSE /\ delPc' = [delPc EXCEPT ![d] = "cancel"]
            /\ delInfo' = [delInfo EXCEPT ![d] = vmData[delPod[d]]]
  /\ UNCHANGED <<obsVars, vmData, counter, vz, taskVars, ctxDone, dlCancel, delPod,
                 delErr, budget, notVM>>

\* if info.DownloadCancelFunc != nil { info.DownloadCancelFunc() }, then
\* the test of info.Resource.Instance(), the last use of info
DelCancel(d) ==
  /\ delPc[d] = "cancel"
  /\ dlCancel' = IF delInfo[d].cancel
                   THEN [dlCancel EXCEPT ![delPod[d]] = TRUE]
                   ELSE dlCancel
  /\ delPc' = [delPc EXCEPT ![d] = IF delInfo[d].inst THEN "stop" ELSE "remove"]
  /\ delInfo' = [delInfo EXCEPT ![d] = NoInfo]
  /\ UNCHANGED <<obsVars, vmData, counter, vz, taskVars, ctxDone, delPod, delErr,
                 budget, notVM>>

\* err = c.stopVirtualMachine(...): instance.Stop force-stops a machine that
\* is not stopped and removes the overlays; either can fail
DelStop(d) ==
  /\ delPc[d] = "stop"
  /\ \E v \in StopOutcomes(vz[delPod[d]]), e \in {"nil", "error"} :
       /\ v # "stopped" => e = "error"
       /\ IF e = "error" THEN Fault ELSE NoFault
       /\ vz' = [vz EXCEPT ![delPod[d]] = v]
       /\ delErr' = [delErr EXCEPT ![d] = e]
  /\ delPc' = [delPc EXCEPT ![d] = "remove"]
  /\ UNCHANGED <<obsVars, vmData, counter, taskVars, ctxDone, dlCancel, delPod,
                 delInfo, nDeletes, nCancels, notVM>>

\* the deferred RemoveVirtualMachineInfo: _, loaded := d.data.LoadAndDelete(key)
RemoveVirtualMachineInfo(d) ==
  /\ delPc[d] = "remove"
  /\ delPc' = [delPc EXCEPT ![d] =
                 IF vmData[delPod[d]] = NoInfo THEN "done" ELSE "decr"]
  /\ vmData' = [vmData EXCEPT ![delPod[d]] = NoInfo]
  /\ UNCHANGED <<obsVars, counter, vz, taskVars, ctxDone, dlCancel, delPod, delInfo,
                 delErr, budget, notVM>>

\* if loaded { d.decrementCounter() }
decrementCounter(d) ==
  /\ delPc[d] = "decr"
  /\ counter' = counter - 1
  /\ delPc' = [delPc EXCEPT ![d] = "done"]
  /\ UNCHANGED <<obsVars, vmData, vz, taskVars, ctxDone, dlCancel, delPod, delInfo,
                 delErr, budget, notVM>>

\* DeleteVirtualMachine returns err to its caller (the caller's own step)
DelReturn(d) ==
  /\ delPc[d] = "done"
  /\ delPc' = [delPc EXCEPT ![d] = "idle"]
  /\ delPod' = [delPod EXCEPT ![d] = NoPod]
  /\ delErr' = [delErr EXCEPT ![d] = "nil"]
  /\ UNCHANGED <<obsVars, vmData, counter, vz, taskVars, ctxDone, dlCancel, delInfo,
                 budget>>

\* the steps of a DeleteVirtualMachine call in progress
DelStep(d) ==
  \/ DelGet(d)
  \/ DelCancel(d)
  \/ DelStop(d)
  \/ RemoveVirtualMachineInfo(d)
  \/ decrementCounter(d)

(***************************************************************************)
(* The resource manager driven directly: its callers create and delete     *)
(* pods and cancel the contexts they passed.                               *)
(***************************************************************************)
ClientCreates(p) == CreateVirtualMachine(p) /\ UNCHANGED notVM

ClientDeletes(d, p) == DeleteVirtualMachine(d, p) /\ UNCHANGED notVM

ClientDeleteReturns(d) == DelReturn(d) /\ UNCHANGED notVM

NextVM ==
  \/ \E p \in Pods : ClientCreates(p)
  \/ \E p \in Pods : TaskStep(p)
  \/ \E p \in Pods : GuestStopped(p)
  \/ \E p \in Pods : CtxCancelled(p)
  \/ \E d \in Dels, p \in Pods : ClientDeletes(d, p)
  \/ \E d \in Dels : DelStep(d)
  \/ \E d \in Dels : ClientDeleteReturns(d)

(***************************************************************************)
(* Part C: VzClientAPIs, the virtualization group of one pod (GP): its     *)
(* macOS VM and one regular container.                                     *)
(***************************************************************************)
\* the pod whose group is modelled
GP == 1
\* the DeleteVirtualMachine call made by the group's teardown
GD == 1
GrpDels == 1..MaxGrpDeleters

\* a pod without an entry in ContainerData
NoCtr == [present |-> FALSE, id |-> FALSE, err |-> FALSE]

InitGrp ==
  /\ extras = FALSE
  /\ rootDir = FALSE
  /\ crPc = "idle"
  /\ crErr = "none"
  /\ vmSub = "idle"
  /\ ctrSub = "idle"
  /\ ctrData = NoCtr
  /\ ctrPc = "none"
  /\ docker = FALSE
  /\ onceState = "new"
  /\ chanBuf = "empty"
  /\ chanClosed = FALSE
  /\ teardowns = 0
  /\ gdPc = [d \in GrpDels |-> "idle"]
  /\ gdRes = [d \in GrpDels |-> "none"]
  /\ overlap = FALSE
  /\ gdAfterOk = [d \in GrpDels |-> FALSE]
  /\ rcPc = "idle"
  /\ rcErr = "nil"
  /\ dup = [pc |-> "idle", vm |-> "idle", ctr |-> "idle", err |-> "none",
            stored |-> FALSE]

\* the VM-side variables a step leaves alone when it injects a failure
vmButFaults == <<vmData, counter, vz, taskVars, ctxDone, dlCancel, delVars,
                 nDeletes, nCancels, obsVars>>
\* the VM-side variables a step leaves alone when it cancels the group's ctx
vmButCtx == <<vmData, counter, vz, taskVars, dlCancel, delVars, budget,
              obsVars>>

(***************************************************************************)
(* VzClientAPIs.CreateVirtualizationGroup                                  *)
(***************************************************************************)
\* ctx, extras.cancelFunc = context.WithCancel(ctx);
\* c.extras.Store(key, extras); g.Go(VM task); g.Go(container task)
CreateVirtualizationGroup ==
  /\ crPc = "idle"
  /\ extras' = TRUE
  /\ vmSub' = "run"
  /\ ctrSub' = "run"
  /\ crPc' = "wait"
  /\ UNCHANGED <<rootDir, crErr, ctrVars, onceVars, gdVars, rcVars, vmVars,
                 notGrp>>

\* the VM task: a request that does not validate (InvalidInput), or
\* volumes.CreateContainerMounts failing after it may have made the root dir
VMTaskFails ==
  /\ vmSub = "run"
  /\ Fault
  /\ \E made \in BOOLEAN : rootDir' = (rootDir \/ made)
  /\ vmSub' = "error"
  /\ UNCHANGED <<extras, crPc, crErr, ctrSub, ctrVars, onceVars, gdVars,
                 rcVars, vmButFaults, notGrp>>

\* the VM task: volumes.CreateContainerMounts(ctx, extras.rootDir, ...)
VMTaskMounts ==
  /\ vmSub = "run"
  /\ rootDir' = TRUE
  /\ vmSub' = "call"
  /\ UNCHANGED <<extras, crPc, crErr, ctrSub, ctrVars, onceVars, gdVars,
                 rcVars, vmVars, notGrp>>

\* the VM task: return c.MacOSClient.CreateVirtualMachine(ctx, ...), entered
VMTaskCreate ==
  /\ vmSub = "call"
  /\ CreateVirtualMachine(GP)
  /\ vmSub' = "called"
  /\ UNCHANGED <<extras, rootDir, crPc, crErr, ctrSub, ctrVars, onceVars,
                 gdVars, rcVars, notGrp>>

\* the VM task: CreateVirtualMachine has returned nil (the record is counted
\* and the creation goroutine runs)
VMTaskReturns ==
  /\ vmSub = "called"
  /\ taskPc[GP] \notin {"none", "incr"}
  /\ vmSub' = "nil"
  /\ UNCHANGED <<extras, rootDir, crPc, crErr, ctrSub, ctrVars, onceVars,
                 gdVars, rcVars, vmVars, notGrp>>

\* the container task: volumes.CreateContainerMounts fails
ContainerTaskFails ==
  /\ ctrSub = "run"
  /\ Fault
  /\ \E made \in BOOLEAN : rootDir' = (rootDir \/ made)
  /\ ctrSub' = "error"
  /\ UNCHANGED <<extras, crPc, crErr, vmSub, ctrVars, onceVars, gdVars,
                 rcVars, vmButFaults, notGrp>>

\* the container task: volumes.CreateContainerMounts(ctx, extras.rootDir, ...)
ContainerTaskMounts ==
  /\ ctrSub = "run"
  /\ rootDir' = TRUE
  /\ ctrSub' = "call"
  /\ UNCHANGED <<extras, crPc, crErr, vmSub, ctrVars, onceVars, gdVars,
                 rcVars, vmVars, notGrp>>

\* DockerClient.CreateContainer: GetOrCreateContainerInfo; loaded ->
\* InvalidInput, else go c.handleDockerContainerCreation(ctx, params)
CreateContainer ==
  /\ ctrSub = "call"
  /\ IF ctrData.present
       THEN /\ ctrSub' = "error"
            /\ UNCHANGED <<ctrData, ctrPc>>
       ELSE /\ ctrData' = [present |-> TRUE, id |-> FALSE, err |-> FALSE]
            /\ ctrPc' = "pull"
            /\ ctrSub' = "nil"
  /\ UNCHANGED <<extras, rootDir, crPc, crErr, vmSub, docker, onceVars,
                 gdVars, rcVars, vmVars, notGrp>>

\* return g.Wait(): the first error of the two tasks, or nil
GroupWait ==
  /\ crPc = "wait"
  /\ vmSub \in {"nil", "error"}
  /\ ctrSub \in {"nil", "error"}
  /\ crErr' = IF vmSub = "error" \/ ctrSub = "error" THEN "error" ELSE "nil"
  /\ crPc' = IF vmSub = "error" \/ ctrSub = "error" THEN "cleanKey"
             ELSE "returned"
  /\ UNCHANGED <<extras, rootDir, vmSub, ctrSub, ctrVars, onceVars, gdVars,
                 rcVars, vmVars, notGrp>>

\* the deferred cleanup, err != nil: c.extras.Delete(key)
CleanupDeleteKey ==
  /\ crPc = "cleanKey"
  /\ extras' = FALSE
  /\ crPc' = "cleanRoot"
  /\ UNCHANGED <<rootDir, crErr, vmSub, ctrSub, ctrVars, onceVars, gdVars,
                 rcVars, vmVars, notGrp>>

\* the deferred cleanup: os.RemoveAll(extras.rootDir)
CleanupRemoveRoot ==
  /\ crPc = "cleanRoot"
  /\ rootDir' = FALSE
  /\ crPc' = "cleanCancel"
  /\ UNCHANGED <<extras, crErr, vmSub, ctrSub, ctrVars, onceVars, gdVars,
                 rcVars, vmVars, notGrp>>

\* the deferred cleanup: extras.cancelFunc(); the call returns err
CleanupCancel ==
  /\ crPc = "cleanCancel"
  /\ ctxDone' = [ctxDone EXCEPT ![GP] = TRUE]
  /\ crPc' = "returned"
  /\ UNCHANGED <<extras, rootDir, crErr, vmSub, ctrSub, ctrVars, onceVars,
                 gdVars, rcVars, vmButCtx, notGrp>>

\* the steps of the CreateVirtualizationGroup call and of its two tasks
CreateStep ==
  \/ VMTaskFails
  \/ VMTaskMounts
  \/ VMTaskCreate
  \/ VMTaskReturns
  \/ ContainerTaskFails
  \/ ContainerTaskMounts
  \/ CreateContainer
  \/ GroupWait
  \/ CleanupDeleteKey
  \/ CleanupRemoveRoot
  \/ CleanupCancel

(***************************************************************************)
(* DockerClient.handleDockerContainerCreation                              *)
(***************************************************************************)
\* a Docker call of the task fails: the daemon refuses (a failure of the
\* environment) or the ctx of the group is cancelled
DockerFails == IF ctxDone[GP] THEN NoFault ELSE Fault

\* c.pullImage fails -> return; the deferred
\* c.data.SetContainerInfo(..., containerInfo.WithError(err))
ContainerPullFails ==
  /\ ctrPc = "pull"
  /\ DockerFails
  /\ ctrData' = [present |-> TRUE, id |-> FALSE, err |-> TRUE]
  /\ ctrPc' = "exited"
  /\ UNCHANGED <<extras, rootDir, crVars, docker, onceVars, gdVars, rcVars,
                 vmButFaults, notGrp>>

\* c.pullImage returns nil
ContainerPull ==
  /\ ctrPc = "pull"
  /\ ctrPc' = "create"
  /\ UNCHANGED <<extras, rootDir, crVars, ctrData, docker, onceVars, gdVars,
                 rcVars, vmVars, notGrp>>

\* c.client.ContainerCreate fails -> return; the deferred SetContainerInfo
ContainerCreateFails ==
  /\ ctrPc = "create"
  /\ DockerFails
  /\ ctrData' = [present |-> TRUE, id |-> FALSE, err |-> TRUE]
  /\ ctrPc' = "exited"
  /\ UNCHANGED <<extras, rootDir, crVars, docker, onceVars, gdVars, rcVars,
                 vmButFaults, notGrp>>

\* result, err := c.client.ContainerCreate(...): the container exists
ContainerCreate ==
  /\ ctrPc = "create"
  /\ docker' = TRUE
  /\ ctrPc' = "setId"
  /\ UNCHANGED <<extras, rootDir, crVars, ctrData, onceVars, gdVars, rcVars,
                 vmVars, notGrp>>

\* c.data.SetContainerInfo(..., containerInfo.WithID(result.ID)): LoadOrStore
\* of the pod's map, then Store of the container
SetContainerInfo ==
  /\ ctrPc = "setId"
  /\ ctrData' = [present |-> TRUE, id |-> TRUE, err |-> FALSE]
  /\ ctrPc' = "start"
  /\ UNCHANGED <<extras, rootDir, crVars, docker, onceVars, gdVars, rcVars,
                 vmVars, notGrp>>

\* c.client.ContainerStart fails -> return; the deferred SetContainerInfo
ContainerStartFails ==
  /\ ctrPc = "start"
  /\ DockerFails
  /\ ctrData' = [present |-> TRUE, id |-> TRUE, err |-> TRUE]
  /\ ctrPc' = "exited"
  /\ UNCHANGED <<extras, rootDir, crVars, docker, onceVars, gdVars, rcVars,
                 vmButFaults, notGrp>>

\* c.client.ContainerStart returns nil; the post-start action only records
\* an event
ContainerStart ==
  /\ ctrPc = "start"
  /\ ctrPc' = "exited"
  /\ UNCHANGED <<extras, rootDir, crVars, ctrData, docker, onceVars, gdVars,
                 rcVars, vmVars, notGrp>>

\* the steps of the container creation goroutine
ContainerStep ==
  \/ ContainerPullFails
  \/ ContainerPull
  \/ ContainerCreateFails
  \/ ContainerCreate
  \/ SetContainerInfo
  \/ ContainerStartFails
  \/ ContainerStart

(***************************************************************************)
(* DockerClient.RemoveContainers                                           *)
(***************************************************************************)
\* containerInfoMap, loaded := c.data.RemoveAllContainerInfo(...);
\* !loaded -> NotFound; a container without an ID is skipped
RemoveAllContainerInfo ==
  /\ rcPc = "call"
  /\ ctrData' = NoCtr
  /\ rcErr' = IF ctrData.present THEN "nil" ELSE "notfound"
  /\ rcPc' = IF ctrData.present /\ ctrData.id THEN "remove" ELSE "done"
  /\ UNCHANGED <<extras, rootDir, crVars, ctrPc, docker, onceVars, gdVars,
                 vmVars, notGrp>>

\* c.client.ContainerRemove(ctx, containerInfo.ID, Force), which can fail
ContainerRemove ==
  /\ rcPc = "remove"
  /\ \E e \in {"nil", "error"} :
       /\ IF e = "error" THEN Fault ELSE NoFault
       /\ docker' = IF e = "nil" THEN FALSE ELSE docker
       /\ rcErr' = e
  /\ rcPc' = "done"
  /\ UNCHANGED <<extras, rootDir, crVars, ctrData, ctrPc, onceVars, gdVars,
                 vmButFaults, notGrp>>

(***************************************************************************)
(* VzClientAPIs.DeleteVirtualizationGroup, one call per d in GrpDels       *)
(***************************************************************************)
\* the call of d is in progress
InFlight(d) == gdPc[d] \notin {"idle", "returned"}

\* extrasValue, loaded := c.extras.Load(key); !loaded -> return
\* errVirtualizationGroupNotFound.  A pod is deleted after the call that
\* created it has returned.
GroupDeleteLoad(d) ==
  /\ gdPc[d] = "idle"
  /\ crPc = "returned"
  /\ IF extras
       THEN /\ gdPc' = [gdPc EXCEPT ![d] = "once"]
            /\ UNCHANGED gdRes
       ELSE /\ gdPc' = [gdPc EXCEPT ![d] = "returned"]
            /\ gdRes' = [gdRes EXCEPT ![d] = "notfound"]
  /\ overlap' = (overlap \/ \E o \in GrpDels \ {d} : InFlight(o))
  /\ gdAfterOk' = [gdAfterOk EXCEPT ![d] =
                     \E o \in GrpDels \ {d} :
                       gdPc[o] = "returned" /\ gdRes[o] = "nil"]
  /\ UNCHANGED <<extras, rootDir, crVars, ctrVars, onceVars, rcVars, vmVars,
                 notGrp>>

\* extras.deleteOnce.Do(func() {...}), the first caller: it runs the body,
\* which starts DeleteVirtualMachine and RemoveContainers and waits for both
DeleteOnceRun(d) ==
  /\ gdPc[d] = "once"
  /\ onceState = "new"
  /\ onceState' = "running"
  /\ teardowns' = teardowns + 1
  /\ DeleteVirtualMachine(GD, GP)
  /\ rcPc' = "call"
  /\ gdPc' = [gdPc EXCEPT ![d] = "wait"]
  /\ UNCHANGED <<extras, rootDir, crVars, ctrVars, chanBuf, chanClosed,
                 gdRes, overlap, gdAfterOk, rcErr, notGrp>>

\* extras.deleteOnce.Do, any other caller: it returns once the body is over
DeleteOncePass(d) ==
  /\ gdPc[d] = "once"
  /\ onceState = "done"
  /\ gdPc' = [gdPc EXCEPT ![d] = "select"]
  /\ UNCHANGED <<extras, rootDir, crVars, ctrVars, onceVars, gdRes, overlap,
                 gdAfterOk, rcVars, vmVars, notGrp>>

\* the switch on vmErr and containerErr (DeleteVirtualMachine never returns
\* NotFound): what is sent to extras.deleteDone
Verdict(vmErr, containerErr) ==
  IF vmErr # "nil" THEN "error"
  ELSE IF containerErr = "error" THEN "error"
  ELSE "nil"

\* wg.Wait() is over; extras.deleteDone <- the verdict
DeleteSendVerdict(d) ==
  /\ gdPc[d] = "wait"
  /\ delPc[GD] = "done"
  /\ rcPc = "done"
  /\ chanBuf' = Verdict(delErr[GD], rcErr)
  /\ DelReturn(GD)
  /\ rcPc' = "idle"
  /\ gdPc' = [gdPc EXCEPT ![d] = "dKey"]
  /\ UNCHANGED <<extras, rootDir, crVars, ctrVars, onceState, chanClosed,
                 teardowns, gdRes, overlap, gdAfterOk, rcErr, notGrp>>

\* the body's deferred func: c.extras.Delete(key)
DeferredDeleteKey(d) ==
  /\ gdPc[d] = "dKey"
  /\ extras' = FALSE
  /\ gdPc' = [gdPc EXCEPT ![d] = "dClose"]
  /\ UNCHANGED <<rootDir, crVars, ctrVars, onceVars, gdRes, overlap,
                 gdAfterOk, rcVars, vmVars, notGrp>>

\* the body's deferred func: close(extras.deleteDone)
DeferredClose(d) ==
  /\ gdPc[d] = "dClose"
  /\ chanClosed' = TRUE
  /\ gdPc' = [gdPc EXCEPT ![d] = "dCancel"]
  /\ UNCHANGED <<extras, rootDir, crVars, ctrVars, onceState, chanBuf,
                 teardowns, gdRes, overlap, gdAfterOk, rcVars, vmVars, notGrp>>

\* the body's deferred func: extras.cancelFunc()
DeferredCancel(d) ==
  /\ gdPc[d] = "dCancel"
  /\ ctxDone' = [ctxDone EXCEPT ![GP] = TRUE]
  /\ gdPc' = [gdPc EXCEPT ![d] = "dRoot"]
  /\ UNCHANGED <<extras, rootDir, crVars, ctrVars, onceVars, gdRes, overlap,
                 gdAfterOk, rcVars, vmButCtx, notGrp>>

\* the body's deferred func: os.RemoveAll(extras.rootDir); Do returns
DeferredRemoveRoot(d) ==
  /\ gdPc[d] = "dRoot"
  /\ rootDir' = FALSE
  /\ onceState' = "done"
  /\ gdPc' = [gdPc EXCEPT ![d] = "select"]
  /\ UNCHANGED <<extras, crVars, ctrVars, chanBuf, chanClosed, teardowns,
                 gdRes, overlap, gdAfterOk, rcVars, vmVars, notGrp>>

\* case err = <-extras.deleteDone: return err.  The buffered verdict goes to
\* the first receiver; a closed, drained channel gives nil.
DeleteReceive(d) ==
  /\ gdPc[d] = "select"
  /\ chanBuf # "empty" \/ chanClosed
  /\ gdRes' = [gdRes EXCEPT ![d] = IF chanBuf # "empty" THEN chanBuf ELSE "nil"]
  /\ chanBuf' = "empty"
  /\ gdPc' = [gdPc EXCEPT ![d] = "returned"]
  /\ UNCHANGED <<extras, rootDir, crVars, ctrVars, onceState, chanClosed,
                 teardowns, overlap, gdAfterOk, rcVars, vmVars, notGrp>>

\* the steps of a DeleteVirtualizationGroup call in progress
GroupDeleteStep(d) ==
  \/ DeleteOnceRun(d)
  \/ DeleteOncePass(d)
  \/ DeleteSendVerdict(d)
  \/ DeferredDeleteKey(d)
  \/ DeferredClose(d)
  \/ DeferredCancel(d)
  \/ DeferredRemoveRoot(d)
  \/ DeleteReceive(d)

\* VzClientAPIs.GetVirtualizationGroup: NotFound when both GetContainers and
\* GetVirtualMachine report NotFound, the group otherwise
GetVirtualizationGroup ==
  IF ~ctrData.present /\ vmData[GP] = NoInfo THEN "notfound" ELSE "found"

NextGrp ==
  \/ CreateVirtualizationGroup
  \/ CreateStep
  \/ ContainerStep
  \/ TaskStep(GP)
  \/ GuestStopped(GP)
  \/ \E d \in GrpDels : GroupDeleteLoad(d)
  \/ \E d \in GrpDels : GroupDeleteStep(d)
  \/ DelStep(GD)
  \/ RemoveAllContainerInfo
  \/ ContainerRemove

(***************************************************************************)
(* A second CreateVirtualizationGroup call for the key of a live group:    *)
(* the first call has returned nil and no delete of the group has begun,   *)
(* nor does one begin while the call is in progress.                       *)
(***************************************************************************)
\* no DeleteVirtualizationGroup call has been made
NoDeleteYet == \A d \in GrpDels : gdPc[d] = "idle"

\* extras := &virtualizationGroupExtras{rootDir: c.getPodVolumeRoot(pod), ...}
\* (the same path); ctx, extras.cancelFunc = context.WithCancel(ctx);
\* c.extras.Store(key, extras); g.Go(VM task); g.Go(container task)
DuplicateCreate ==
  /\ dup.pc = "idle"
  /\ crPc = "returned" /\ crErr = "nil"
  /\ extras
  /\ NoDeleteYet
  /\ extras' = TRUE
  /\ dup' = [dup EXCEPT !.pc = "wait", !.vm = "run", !.ctr = "run",
                        !.stored = TRUE]
  /\ UNCHANGED <<rootDir, notDup>>

\* a task of the call: volumes.CreateContainerMounts(ctx, extras.rootDir, ..)
DuplicateTaskMounts(task) ==
  /\ dup[task] = "run"
  /\ rootDir' = TRUE
  /\ dup' = [dup EXCEPT ![task] = "call"]
  /\ UNCHANGED <<extras, notDup>>

\* a task of the call: CreateVirtualMachine, CreateContainer: the record of
\* the key is loaded, InvalidInput
DuplicateTaskCreate(task) ==
  /\ dup[task] = "call"
  /\ IF task = "vm" THEN vmData[GP] # NoInfo ELSE ctrData.present
  /\ dup' = [dup EXCEPT ![task] = "InvalidInput"]
  /\ UNCHANGED <<extras, rootDir, notDup>>

\* return g.Wait()
DuplicateWait ==
  /\ dup.pc = "wait"
  /\ dup.vm = "InvalidInput" /\ dup.ctr = "InvalidInput"
  /\ dup' = [dup EXCEPT !.pc = "cleanKey", !.err = "InvalidInput"]
  /\ UNCHANGED <<extras, rootDir, notDup>>

\* the deferred cleanup, err != nil: c.extras.Delete(key);
\* os.RemoveAll(extras.rootDir); extras.cancelFunc(), the cancel of the ctx
\* this call derived
DuplicateCleanup ==
  /\ dup.pc \in {"cleanKey", "cleanRoot", "cleanCancel"}
  /\ CASE dup.pc = "cleanKey" ->
            /\ extras' = FALSE
            /\ dup' = [dup EXCEPT !.pc = "cleanRoot", !.stored = FALSE]
            /\ UNCHANGED rootDir
       [] dup.pc = "cleanRoot" ->
            /\ rootDir' = FALSE
            /\ dup' = [dup EXCEPT !.pc = "cleanCancel"]
            /\ UNCHANGED extras
       [] OTHER ->
            /\ dup' = [dup EXCEPT !.pc = "returned"]
            /\ UNCHANGED <<extras, rootDir>>
  /\ UNCHANGED notDup

\* a delete of the group that begins while no second create is in progress
DeleteOutsideDuplicate(d) ==
  /\ dup.pc \in {"idle", "returned"}
  /\ GroupDeleteLoad(d)

NextDup ==
  \/ CreateVirtualizationGroup
  \/ CreateStep
  \/ ContainerStep
  \/ TaskStep(GP)
  \/ GuestStopped(GP)
  \/ DuplicateCreate
  \/ \E task \in {"vm", "ctr"} : DuplicateTaskMounts(task)
  \/ \E task \in {"vm", "ctr"} : DuplicateTaskCreate(task)
  \/ DuplicateWait
  \/ DuplicateCleanup
  \/ \E d \in GrpDels : DeleteOutsideDuplicate(d)
  \/ \E d \in GrpDels : GroupDeleteStep(d)
  \/ DelStep(GD)
  \/ RemoveAllContainerInfo
  \/ ContainerRemove

(***************************************************************************)
(* Part D: MacOSVZProvider.  The provider reaches the virtualization       *)
(* groups and the control plane through interfaces (VzClientInterface,     *)
(* kubernetes.Interface); their answers are inputs.  It handles one call   *)
(* for the pod at a time here.                                             *)
(***************************************************************************)
Containers == 1..MaxContainers
Graces == 0..MaxGrace
PodPhases == {"Pending", "Running", "Succeeded", "Failed", "Unknown"}
VirtualMachineStates ==
  {"Preparing", "Starting", "Running", "Terminating", "Terminated", "Failed"}
ContainerStatuses ==
  {"Waiting", "Created", "Running", "Paused", "Restarting", "OOMKilled",
   "Dead", "Unknown"}
\* the lists of auxiliary containers GetVirtualizationGroup can return
ContainerLists ==
  UNION {[1..n -> ContainerStatuses] : n \in 0..(MaxContainers - 1)}

\* the statuses of PodInitialized and PodReady (PodScheduled is always True)
NoConditions == [initialized |-> FALSE, ready |-> FALSE]

InitPD ==
  /\ pdPc = "idle"
  /\ pdPhase = "Pending"
  /\ pdGrace = 0
  /\ pdHooks = {}
  /\ pdTodo = {}
  /\ hooksRun = {}
  /\ hooksFailed = {}
  /\ canDeleteFast = TRUE
  /\ pdGrpRes = "none"
  /\ pdGrpGrace = 0
  /\ k8sDeleted = FALSE
  /\ k8sGrace = 0

InitGS ==
  /\ gsPc = "idle"
  /\ gsVM = "Preparing"
  /\ gsIP = FALSE
  /\ gsCtrs = <<>>
  /\ gsDelTs = FALSE
  /\ gsPhase = "Pending"
  /\ gsConds = NoConditions
  /\ gsRet = "none"
  /\ gsDeleted = FALSE
  /\ gsGrace = 0

InitProv == InitPD /\ InitGS

(***************************************************************************)
(* getPodPhaseFromVirtualizationGroup                                      *)
(***************************************************************************)
RECURSIVE ContainersLoop(_, _)
\* for _, container := range groupContainers { switch container.State.Status }:
\* the phase the loop returns, or what allContainersRunning is at its end
ContainersLoop(containers, allContainersRunning) ==
  IF containers = <<>>
    THEN IF allContainersRunning THEN "allRunning" ELSE "notAllRunning"
    ELSE LET status == Head(containers) IN
         IF status \in {"Waiting", "Created"} THEN "Pending"
         ELSE IF status = "Running"
           THEN ContainersLoop(Tail(containers), allContainersRunning)
         ELSE IF status \in {"OOMKilled", "Unknown"} THEN "Failed"
         ELSE ContainersLoop(Tail(containers), FALSE)

getPodPhaseFromVirtualizationGroup(vmState, hasIP, groupContainers) ==
  IF vmState \in {"Preparing", "Starting"} THEN "Pending"
  ELSE IF vmState = "Terminated" THEN "Succeeded"
  ELSE IF vmState = "Failed" THEN "Failed"
  ELSE IF groupContainers = <<>>
    THEN IF ~hasIP THEN "Pending" ELSE "Running"
  ELSE LET loop == ContainersLoop(groupContainers, TRUE) IN
       IF loop \in {"Pending", "Failed"} THEN loop
       ELSE IF ~hasIP THEN "Pending"
       ELSE IF loop = "allRunning" THEN "Running"
       ELSE "Unknown"

(***************************************************************************)
(* getPodConditionsFromVirtualizationGroup                                 *)
(***************************************************************************)
RECURSIVE ConditionsLoop(_, _)
\* for _, container := range groupContainers: what allContainersRunning is
\* at the end of the loop (Waiting and Created leave it alone)
ConditionsLoop(containers, allContainersRunning) ==
  IF containers = <<>> THEN allContainersRunning
  ELSE LET status == Head(containers) IN
       IF status \in {"Waiting", "Created", "Running"}
         THEN ConditionsLoop(Tail(containers), allContainersRunning)
         ELSE ConditionsLoop(Tail(containers), FALSE)

\* the statuses the function gives to PodInitialized and PodReady; inside
\* the loop they are only ever set to False, which they are from the start
getPodConditionsFromVirtualizationGroup(vmState, groupContainers) ==
  IF vmState \in {"Preparing", "Starting"}
    THEN [initialized |-> FALSE, ready |-> FALSE]
  ELSE IF vmState = "Terminated" THEN [initialized |-> TRUE, ready |-> FALSE]
  ELSE IF vmState = "Failed" THEN [initialized |-> FALSE, ready |-> FALSE]
  ELSE IF ConditionsLoop(groupContainers, TRUE)
    THEN [initialized |-> TRUE, ready |-> TRUE]
  ELSE [initialized |-> FALSE, ready |-> FALSE]

\* DockerClient.GetContainers, getContainersWrapped for the pod's entry: a
\* container whose info holds an error, or has no ID yet, or whose
\* ContainerInspect fails, keeps the zero State.Status (Waiting); the others
\* get the status Docker reports
GroupContainers ==
  IF ~ctrData.present THEN <<>>
  ELSE IF ctrData.err \/ ~ctrData.id \/ ~docker THEN <<"Waiting">>
  ELSE IF ctrPc = "start" THEN <<"Created">>
  ELSE <<"Running">>

\* the phase buildPodStatus gives to the group GetVirtualizationGroup returns
\* for the pod (a zero MacOSVirtualMachine when only the containers are found)
GroupPhase ==
  getPodPhaseFromVirtualizationGroup(State(vmData[GP], vz[GP]),
                                     vmData[GP].inst /\ ip[GP],
                                     GroupContainers)

(***************************************************************************)
(* MacOSVZProvider.DeletePod, handleDeletePod, handlePreStopHooks          *)
(***************************************************************************)
\* a handler that runs the hooks whatever the grace period is
DeletePodHooksAtAnyGrace(phase, graceSet, grace, hooks) ==
  /\ pdPc = "idle"
  /\ gsPc = "idle"
  /\ pdPhase' = phase
  /\ pdGrace' = IF graceSet THEN grace ELSE 0
  /\ pdHooks' = hooks
  /\ canDeleteFast' = TRUE
  /\ pdPc' = IF phase = "Running" THEN "hooks" ELSE "delete"
  /\ UNCHANGED <<pdTodo, hooksRun, hooksFailed, pdGrpRes, pdGrpGrace,
                 k8sDeleted, k8sGrace, gsVars, notProv>>

\* DeletePod: go p.handleDeletePod(ctx, pod).  gracePeriod is
\* *pod.DeletionGracePeriodSeconds, or 0 when that is nil; canDeleteFast :=
\* true; the hooks run if pod.Status.Phase == PodRunning && gracePeriod > 0
DeletePod(phase, graceSet, grace, hooks) ==
  /\ pdPc = "idle"
  /\ gsPc = "idle"
  /\ pdPhase' = phase
  /\ pdGrace' = IF graceSet THEN grace ELSE 0
  /\ pdHooks' = hooks
  /\ canDeleteFast' = TRUE
  /\ pdPc' = IF phase = "Running" /\ pdGrace' > 0 THEN "hooks" ELSE "delete"
  /\ UNCHANGED <<pdTodo, hooksRun, hooksFailed, pdGrpRes, pdGrpGrace,
                 k8sDeleted, k8sGrace, gsVars, notProv>>

\* handlePreStopHooks: g.Go for every container with a PreStop exec command
handlePreStopHooks ==
  /\ pdPc = "hooks"
  /\ pdTodo' = pdHooks
  /\ pdPc' = "exec"
  /\ UNCHANGED <<pdPhase, pdGrace, pdHooks, hooksRun, hooksFailed,
                 canDeleteFast, pdGrpRes, pdGrpGrace, k8sDeleted, k8sGrace,
                 gsVars, notProv>>

\* one hook goroutine: p.vzClient.ExecuteContainerCommand(...); on an error
\* (the command fails, or the grace period is over) FailedPreStopHook
ExecPreStopHook(c, ok) ==
  /\ pdPc = "exec"
  /\ c \in pdTodo
  /\ pdTodo' = pdTodo \ {c}
  /\ hooksRun' = hooksRun \cup {c}
  /\ hooksFailed' = IF ok THEN hooksFailed ELSE hooksFailed \cup {c}
  /\ UNCHANGED <<pdPc, pdPhase, pdGrace, pdHooks, canDeleteFast, pdGrpRes,
                 pdGrpGrace, k8sDeleted, k8sGrace, gsVars, notProv>>

\* return g.Wait(); canDeleteFast = hookErr == nil
PreStopHooksWait ==
  /\ pdPc = "exec"
  /\ pdTodo = {}
  /\ canDeleteFast' = (hooksFailed = {})
  /\ pdPc' = "delete"
  /\ UNCHANGED <<pdPhase, pdGrace, pdHooks, pdTodo, hooksRun, hooksFailed,
                 pdGrpRes, pdGrpGrace, k8sDeleted, k8sGrace, gsVars, notProv>>

\* a handler that goes on to the control plane whatever the hooks did
ProviderDeleteGroupThenAlways(outcome) ==
  /\ pdPc = "delete"
  /\ pdGrpRes' = outcome
  /\ pdGrpGrace' = pdGrace
  /\ pdPc' = IF outcome # "nil" THEN "done" ELSE "k8s"
  /\ UNCHANGED <<pdPhase, pdGrace, pdHooks, pdTodo, hooksRun, hooksFailed,
                 canDeleteFast, k8sDeleted, k8sGrace, gsVars, notProv>>

\* err = p.vzClient.DeleteVirtualizationGroup(ctx, ..., gracePeriod);
\* err != nil -> return; !canDeleteFast -> return
ProviderDeleteGroup(outcome) ==
  /\ pdPc = "delete"
  /\ pdGrpRes' = outcome
  /\ pdGrpGrace' = pdGrace
  /\ pdPc' = IF outcome # "nil" THEN "done"
             ELSE IF ~canDeleteFast THEN "done"
             ELSE "k8s"
  /\ UNCHANGED <<pdPhase, pdGrace, pdHooks, pdTodo, hooksRun, hooksFailed,
                 canDeleteFast, k8sDeleted, k8sGrace, gsVars, notProv>>

\* p.k8sClient.CoreV1().Pods(ns).Delete(ctx, name, {GracePeriodSeconds: 0});
\* its error is only logged
K8sDeletePod ==
  /\ pdPc = "k8s"
  /\ k8sDeleted' = TRUE
  /\ k8sGrace' = 0
  /\ pdPc' = "done"
  /\ UNCHANGED <<pdPhase, pdGrace, pdHooks, pdTodo, hooksRun, hooksFailed,
                 canDeleteFast, pdGrpRes, pdGrpGrace, gsVars, notProv>>

\* handleDeletePod returns
DeletePodReturns ==
  /\ pdPc = "done"
  /\ pdPc' = "idle"
  /\ pdPhase' = "Pending"
  /\ pdGrace' = 0
  /\ pdHooks' = {}
  /\ pdTodo' = {}
  /\ hooksRun' = {}
  /\ hooksFailed' = {}
  /\ canDeleteFast' = TRUE
  /\ pdGrpRes' = "none"
  /\ pdGrpGrace' = 0
  /\ k8sDeleted' = FALSE
  /\ k8sGrace' = 0
  /\ UNCHANGED <<gsVars, notProv>>

(***************************************************************************)
(* MacOSVZProvider.GetPodStatus                                            *)
(***************************************************************************)
\* GetPodStatus is called for the pod
GetPodStatus ==
  /\ gsPc = "idle"
  /\ pdPc = "idle"
  /\ gsPc' = "get"
  /\ UNCHANGED <<gsVM, gsIP, gsCtrs, gsDelTs, gsPhase, gsConds, gsRet,
                 gsDeleted, gsGrace, pdVars, notProv>>

\* vg, err := p.vzClient.GetVirtualizationGroup(...); err != nil -> return
GetGroupFails ==
  /\ gsPc = "get"
  /\ gsRet' = "error"
  /\ gsPc' = "done"
  /\ UNCHANGED <<gsVM, gsIP, gsCtrs, gsDelTs, gsPhase, gsConds, gsDeleted,
                 gsGrace, pdVars, notProv>>

\* GetVirtualizationGroup returns the group; a machine has an address only
\* once it has an instance
GetGroup(vmState, hasIP, groupContainers) ==
  /\ gsPc = "get"
  /\ vmState = "Preparing" => ~hasIP
  /\ gsVM' = vmState
  /\ gsIP' = hasIP
  /\ gsCtrs' = groupContainers
  /\ gsPc' = "lister"
  /\ UNCHANGED <<gsDelTs, gsPhase, gsConds, gsRet, gsDeleted, gsGrace,
                 pdVars, notProv>>

\* pod, err := p.podLister.Pods(namespace).Get(name); err != nil -> return
PodListerFails ==
  /\ gsPc = "lister"
  /\ gsRet' = "error"
  /\ gsPc' = "done"
  /\ UNCHANGED <<gsVM, gsIP, gsCtrs, gsDelTs, gsPhase, gsConds, gsDeleted,
                 gsGrace, pdVars, notProv>>

\* a handler that does not look at the deletion timestamp
buildPodStatusOfAnyPod(deletionTimestamp) ==
  /\ gsPc = "lister"
  /\ gsDelTs' = deletionTimestamp
  /\ gsPhase' = getPodPhaseFromVirtualizationGroup(gsVM, gsIP, gsCtrs)
  /\ gsConds' = getPodConditionsFromVirtualizationGroup(gsVM, gsCtrs)
  /\ gsRet' = "status"
  /\ gsPc' = IF gsPhase' \in {"Failed", "Succeeded"} THEN "cleanup" ELSE "done"
  /\ UNCHANGED <<gsVM, gsIP, gsCtrs, gsDeleted, gsGrace, pdVars, notProv>>

\* ps = p.buildPodStatus(ctx, vg, pod), then the test
\* pod.DeletionTimestamp == nil && (ps.Phase == PodFailed || PodSucceeded)
buildPodStatus(deletionTimestamp) ==
  /\ gsPc = "lister"
  /\ gsDelTs' = deletionTimestamp
  /\ gsPhase' = getPodPhaseFromVirtualizationGroup(gsVM, gsIP, gsCtrs)
  /\ gsConds' = getPodConditionsFromVirtualizationGroup(gsVM, gsCtrs)
  /\ gsRet' = "status"
  /\ gsPc' = IF ~deletionTimestamp /\ gsPhase' \in {"Failed", "Succeeded"}
               THEN "cleanup" ELSE "done"
  /\ UNCHANGED <<gsVM, gsIP, gsCtrs, gsDeleted, gsGrace, pdVars, notProv>>

\* p.vzClient.DeleteVirtualizationGroup(ctx, namespace, name,
\* DefaultDeleteVZGroupGracePeriodSeconds); its error is only logged
AutoCleanup ==
  /\ gsPc = "cleanup"
  /\ gsDeleted' = TRUE
  /\ gsGrace' = DefaultDeleteVZGroupGracePeriodSeconds
  /\ gsPc' = "done"
  /\ UNCHANGED <<gsVM, gsIP, gsCtrs, gsDelTs, gsPhase, gsConds, gsRet,
                 pdVars, notProv>>

\* GetPodStatus returns
GetPodStatusReturns ==
  /\ gsPc = "done"
  /\ gsPc' = "idle"
  /\ gsVM' = "Preparing"
  /\ gsIP' = FALSE
  /\ gsCtrs' = <<>>
  /\ gsDelTs' = FALSE
  /\ gsPhase' = "Pending"
  /\ gsConds' = NoConditions
  /\ gsRet' = "none"
  /\ gsDeleted' = FALSE
  /\ gsGrace' = 0
  /\ UNCHANGED <<pdVars, notProv>>

NextProv ==
  \/ \E phase \in PodPhases, graceSet \in BOOLEAN, grace \in Graces,
        hooks \in SUBSET Containers : DeletePod(phase, graceSet, grace, hooks)
  \/ handlePreStopHooks
  \/ \E c \in Containers, ok \in BOOLEAN : ExecPreStopHook(c, ok)
  \/ PreStopHooksWait
  \/ \E outcome \in {"nil", "error"} : ProviderDeleteGroup(outcome)
  \/ K8sDeletePod
  \/ DeletePodReturns
  \/ GetPodStatus
  \/ GetGroupFails
  \/ \E vmState \in VirtualMachineStates, hasIP \in BOOLEAN,
        groupContainers \in ContainerLists :
       GetGroup(vmState, hasIP, groupContainers)
  \/ PodListerFails
  \/ \E deletionTimestamp \in BOOLEAN : buildPodStatus(deletionTimestamp)
  \/ AutoCleanup
  \/ GetPodStatusReturns

(***************************************************************************)
(* Part E: oci.Store.  The content of the Push call q has the digest q; a   *)
(* path is the name of the file in the working directory, or "tmp" for the *)
(* temp file of the call.                                                  *)
(***************************************************************************)
Pushers == 1..MaxPushers
\* the supported media types, and one that is not
MediaTypes == {"disk", "aux", "config", "other"}
IsMediaTypeSupported(mt) == mt # "other"
\* MediaType.Title
Title(mt) ==
  CASE mt = "disk"   -> "disk.img"
    [] mt = "aux"    -> "aux.img"
    [] mt = "config" -> "config.json"
    [] OTHER         -> ""
Names == {"disk.img", "aux.img", "config.json"}
\* the titles and media types the descriptors given to Push carry
PushNames == {"disk.img", "aux.img"}
PushTypes == {"disk", "other"}
\* the descriptor carries the annotations of compressed content: the disk
\* image is pushed compressed, the auxiliary image as it is
Compressed(name) == name = "disk.img"

NoPush == [pc |-> "idle", name |-> "", mt |-> "", ret |-> "none"]

\* the digests: the content of the Push call q has the digest q; the file
\* that Add compresses and the serialized config of Set have digests of
\* their own
AddDigest(mt) ==
  CASE mt = "disk"   -> MaxPushers + 1
    [] mt = "aux"    -> MaxPushers + 2
    [] OTHER         -> MaxPushers + 3
ConfigDigest == MaxPushers + 4
Digests == 1..ConfigDigest

InitStore ==
  /\ store = [closed |-> FALSE,
              exists |-> [n \in Names |-> FALSE],
              digestToPath |-> [d \in Digests |-> "none"],
              mediaTypeToPath |-> [mt \in MediaTypes |-> "none"],
              tmpFiles |-> {}]
  /\ pushes = [q \in Pushers |-> NoPush]
  /\ ret = [op |-> "none", res |-> "none"]

\* status.Lock() of the name is held by a call
Locked(n) == \E q \in Pushers : pushes[q].pc \in {"save", "verify"} /\ pushes[q].name = n

\* the call q returns res (the deferred status.Unlock())
PushReturns(q, res) ==
  pushes' = [pushes EXCEPT ![q].pc = "returned", ![q].ret = res]

\* Store.Push: if s.isClosedSet() { return ErrStoreClosed }; the descriptor
\* has a title (a descriptor without one goes to the memory store)
Push(q, name, mt) ==
  /\ pushes[q].pc = "idle"
  /\ pushes' = [pushes EXCEPT ![q] =
                  IF store.closed
                    THEN [pc |-> "returned", name |-> name, mt |-> mt,
                          ret |-> "StoreClosed"]
                    ELSE [pc |-> "lock", name |-> name, mt |-> mt,
                          ret |-> "none"]]
  /\ UNCHANGED <<store, ret, notOCI>>

\* a Push that tests the media type before the status of the name
PushLockTypeFirst(q) ==
  /\ pushes[q].pc = "lock"
  /\ ~Locked(pushes[q].name)
  /\ IF ~IsMediaTypeSupported(pushes[q].mt) THEN PushReturns(q, "Unsupported")
     ELSE IF store.exists[pushes[q].name] THEN PushReturns(q, "DuplicateName")
     ELSE pushes' = [pushes EXCEPT ![q].pc = "save"]
  /\ UNCHANGED <<store, ret, notOCI>>

\* a Push whose status.Lock() does not wait for the holder of the lock
PushLockUnguarded(q) ==
  /\ pushes[q].pc = "lock"
  /\ IF store.exists[pushes[q].name] THEN PushReturns(q, "DuplicateName")
     ELSE IF ~IsMediaTypeSupported(pushes[q].mt)
       THEN PushReturns(q, "Unsupported")
     ELSE pushes' = [pushes EXCEPT ![q].pc = "save"]
  /\ UNCHANGED <<store, ret, notOCI>>

\* status := s.status(name); status.Lock(); status.exists -> ErrDuplicateName;
\* !IsMediaTypeSupported(expected.MediaType) -> error
PushLock(q) ==
  /\ pushes[q].pc = "lock"
  /\ ~Locked(pushes[q].name)
  /\ IF store.exists[pushes[q].name] THEN PushReturns(q, "DuplicateName")
     ELSE IF ~IsMediaTypeSupported(pushes[q].mt)
       THEN PushReturns(q, "Unsupported")
     ELSE pushes' = [pushes EXCEPT ![q].pc = "save"]
  /\ UNCHANGED <<store, ret, notOCI>>

\* processCompressedContent / processRegularContent up to saveFile: the temp
\* file of compressed content is tracked; saveFile fails -> return; else
\* s.digestToPath.Store(expected.Digest, path)
saveFile(q, outcome) ==
  /\ pushes[q].pc = "save"
  /\ LET tracked == IF Compressed(pushes[q].name) THEN store.tmpFiles \cup {q}
                    ELSE store.tmpFiles
         path == IF Compressed(pushes[q].name) THEN "tmp"
                 ELSE pushes[q].name IN
       IF outcome = "ok"
         THEN /\ store' = [store EXCEPT !.tmpFiles = tracked,
                                        !.digestToPath[q] = path]
              /\ pushes' = [pushes EXCEPT ![q].pc = "verify"]
         ELSE /\ store' = [store EXCEPT !.tmpFiles = tracked]
              /\ PushReturns(q, "error")
  /\ UNCHANGED <<ret, notOCI>>

\* disk.DecompressFileWithPath and the digest test, or
\* disk.ComputeAndVerifyFileDigest: an error -> return; else
\* s.mediaTypeToPath.Store(expected.MediaType, outputFilePath), the deferred
\* fp.Close() joined to the result, and in Push, on nil, status.exists = true
PushVerify(q, outcome) ==
  /\ pushes[q].pc = "verify"
  /\ LET name == pushes[q].name
         mt == pushes[q].mt IN
       CASE outcome = "mismatch" ->
              /\ PushReturns(q, "error")
              /\ UNCHANGED store
         [] outcome = "closeError" ->
              /\ PushReturns(q, "error")
              /\ store' = [store EXCEPT !.mediaTypeToPath[mt] = name]
         [] OTHER ->
              /\ PushReturns(q, "nil")
              /\ store' = [store EXCEPT !.mediaTypeToPath[mt] = name,
                                        !.exists[name] = TRUE]
  /\ UNCHANGED <<ret, notOCI>>

\* Store.Close: closed -> ErrStoreClosed; else setClosed and os.Remove of
\* every tracked temp file, the errors joined
Close(outcome) ==
  /\ IF store.closed
       THEN /\ ret' = [op |-> "Close", res |-> "StoreClosed"]
            /\ UNCHANGED store
       ELSE /\ ret' = [op |-> "Close", res |-> outcome]
            /\ store' = [store EXCEPT !.closed = TRUE]
  /\ UNCHANGED <<pushes, notOCI>>

\* the calls that leave the fields of the Store alone: all but Predecessors
\* begin with the closed test
Queries ==
  {"Fetch", "Resolve", "Tag", "Predecessors", "GetManifestConfigDescriptor",
   "GetFilePathForMediaType", "GetConfig"}

\* what a call returns on a closed store, ErrStoreClosed being the answer of
\* the closed test
Returns(op, res) ==
  ret' = IF store.closed THEN [op |-> op, res |-> res] ELSE ret

StoreQuery(op, outcome) ==
  /\ Returns(op, IF op = "Predecessors" THEN "nil"
                 ELSE IF store.closed THEN "StoreClosed"
                 ELSE outcome)
  /\ UNCHANGED <<store, pushes, notOCI>>

\* Store.Exists: closed -> ErrStoreClosed; the media type is in the index ->
\* true; the file of the name is on the disk and validates ->
\* s.mediaTypeToPath.Store(target.MediaType, filePath), true
Exists(mt, onDisk) ==
  /\ Returns("Exists", IF store.closed THEN "StoreClosed" ELSE "nil")
  /\ IF ~store.closed /\ store.mediaTypeToPath[mt] = "none" /\ onDisk
          /\ Title(mt) # ""
       THEN store' = [store EXCEPT !.mediaTypeToPath[mt] = Title(mt)]
       ELSE UNCHANGED store
  /\ UNCHANGED <<pushes, notOCI>>

\* Store.Add: closed -> ErrStoreClosed; unsupported media type -> error;
\* status.Lock(); exists -> ErrDuplicateName; os.Stat fails -> error; else
\* descriptorFromStorageFile (the temp file is tracked, the file compressed
\* into it, s.digestToPath.Store(res.GzDigest, res.OutputFilePath)),
\* s.mediaTypeToPath.Store(mediaType, path) and status.exists = true
Add(mt, outcome) ==
  /\ ~Locked(Title(mt))
  /\ LET res == IF store.closed THEN "StoreClosed"
                ELSE IF ~IsMediaTypeSupported(mt) THEN "Unsupported"
                ELSE IF store.exists[Title(mt)] THEN "DuplicateName"
                ELSE outcome IN
       /\ Returns("Add", res)
       /\ IF res = "nil"
            THEN store' = [store EXCEPT
                             !.tmpFiles = @ \cup {AddDigest(mt)},
                             !.digestToPath[AddDigest(mt)] = "tmp",
                             !.mediaTypeToPath[mt] = Title(mt),
                             !.exists[Title(mt)] = TRUE]
            ELSE UNCHANGED store
  /\ UNCHANGED <<pushes, notOCI>>

\* Store.Set: closed -> ErrStoreClosed; status.Lock() of the config's name;
\* exists -> ErrDuplicateName; json.Marshal or s.tempFile() fails -> error;
\* else descriptorFromConfig (the temp file is tracked, the config written
\* to it, s.digestToPath.Store(configDigest, configFile.Name())) and
\* status.exists = true; the media type index is not written
Set(outcome) ==
  /\ LET res == IF store.closed THEN "StoreClosed"
                ELSE IF store.exists["config.json"] THEN "DuplicateName"
                ELSE outcome IN
       /\ Returns("Set", res)
       /\ IF res = "nil"
            THEN store' = [store EXCEPT
                             !.tmpFiles = @ \cup {ConfigDigest},
                             !.digestToPath[ConfigDigest] = "tmp",
                             !.exists["config.json"] = TRUE]
            ELSE UNCHANGED store
  /\ UNCHANGED <<pushes, notOCI>>

NextStore ==
  \/ \E q \in Pushers, name \in PushNames, mt \in PushTypes :
       Push(q, name, mt)
  \/ \E q \in Pushers : PushLock(q)
  \/ \E q \in Pushers, outcome \in {"ok", "error"} : saveFile(q, outcome)
  \/ \E q \in Pushers, outcome \in {"ok", "mismatch", "closeError"} :
       PushVerify(q, outcome)
  \/ \E outcome \in {"nil", "error"} : Close(outcome)
  \/ \E op \in Queries, outcome \in {"nil", "error"} : StoreQuery(op, outcome)
  \/ \E mt \in MediaTypes, onDisk \in BOOLEAN : Exists(mt, onDisk)
  \/ \E mt \in MediaTypes, outcome \in {"nil", "error"} : Add(mt, outcome)
  \/ \E outcome \in {"nil", "error"} : Set(outcome)

(***************************************************************************)
(* Part E, continued: downloader.Download over the store.  err is the set  *)
(* of the errors joined in the named result, {} being nil.  The loop is    *)
(* wait.ExponentialBackoffWithContext of k8s.io/apimachinery: while        *)
(* backoff.Steps > 0: ctx done -> ctx.Err(); run the condition; done ->    *)
(* nil; Steps = 1 -> break; backoff.Step() (Steps--) and wait for the      *)
(* timer or ctx; after the loop ErrWaitTimeout.  With the default delays   *)
(* (2 s, factor 1.6, cap 60 s) five steps never reach the cap.             *)
(***************************************************************************)
InitDownload ==
  download = [pc |-> "idle", Steps |-> 0, attempts |-> 0, events |-> 0,
              ctxDone |-> FALSE, err |-> {}]

\* Download: the defaults, oci.New (an error returns before the defer)
Download(outcome) ==
  /\ download.pc = "idle"
  /\ download' = IF outcome = "error"
                   THEN [download EXCEPT !.pc = "done", !.err = {"store"}]
                   ELSE [download EXCEPT !.pc = "loop",
                                         !.Steps = DefaultMaxAttempts]
  /\ UNCHANGED <<ociVars, notPull>>

\* the caller's ctx is cancelled
DownloadCtxCancel ==
  /\ download.pc \notin {"idle", "done"}
  /\ ~download.ctxDone
  /\ download' = [download EXCEPT !.ctxDone = TRUE]
  /\ UNCHANGED <<ociVars, notPull>>

\* the head of the loop
BackoffLoop ==
  /\ download.pc = "loop"
  /\ download' = IF download.Steps <= 0
                   THEN [download EXCEPT !.pc = "close", !.err = {"timeout"}]
                   ELSE IF download.ctxDone
                   THEN [download EXCEPT !.pc = "close", !.err = {"ctx"}]
                   ELSE [download EXCEPT !.pc = "pull"]
  /\ UNCHANGED <<ociVars, notPull>>

\* oras.Copy of one pull pushes the layers of the image to the store, each
\* under the title of its media type
Copy ==
  /\ download.pc = "pull"
  /\ \/ \E q \in Pushers, mt \in {"disk", "aux", "config"} :
          Push(q, Title(mt), mt)
     \/ \E q \in Pushers : PushLock(q)
     \/ \E q \in Pushers, outcome \in {"ok", "error"} : saveFile(q, outcome)
     \/ \E q \in Pushers, outcome \in {"ok", "mismatch", "closeError"} :
          PushVerify(q, outcome)

\* the condition func with the event recorded for every pull
pullAlwaysRecorded(outcome) ==
  /\ download.pc = "pull"
  /\ \A q \in Pushers : pushes[q].pc \in {"idle", "returned"}
  /\ download' =
       IF outcome = "nil"
         THEN [download EXCEPT !.attempts = @ + 1, !.events = @ + 1,
                               !.err = {}, !.pc = "getters"]
         ELSE IF download.Steps = 1
         THEN [download EXCEPT !.attempts = @ + 1, !.events = @ + 1,
                               !.err = {"timeout"}, !.pc = "close"]
         ELSE [download EXCEPT !.attempts = @ + 1, !.events = @ + 1,
                               !.err = {"pull"}, !.Steps = @ - 1,
                               !.pc = "backoff"]
  /\ pushes' = [q \in Pushers |-> NoPush]
  /\ UNCHANGED <<store, ret, notPull>>

\* the condition func: pull returns once its pushes have; on an error
\* eventRecorder.FailedToPullImage, and `return err == nil, nil`.  Then the
\* loop: done -> nil; Steps = 1 -> break to ErrWaitTimeout; else Step()
pull(outcome) ==
  /\ download.pc = "pull"
  /\ \A q \in Pushers : pushes[q].pc \in {"idle", "returned"}
  /\ download' =
       IF outcome = "nil"
         THEN [download EXCEPT !.attempts = @ + 1, !.err = {},
                               !.pc = "getters"]
         ELSE IF download.Steps = 1
         THEN [download EXCEPT !.attempts = @ + 1, !.events = @ + 1,
                               !.err = {"timeout"}, !.pc = "close"]
         ELSE [download EXCEPT !.attempts = @ + 1, !.events = @ + 1,
                               !.err = {"pull"}, !.Steps = @ - 1,
                               !.pc = "backoff"]
  /\ pushes' = [q \in Pushers |-> NoPush]
  /\ UNCHANGED <<store, ret, notPull>>

\* select: ctx.Done() -> ctx.Err(); the timer -> the next iteration
BackoffWait(timer) ==
  /\ download.pc = "backoff"
  /\ timer \/ download.ctxDone
  /\ download' = IF timer
                   THEN [download EXCEPT !.pc = "loop"]
                   ELSE [download EXCEPT !.pc = "close", !.err = {"ctx"}]
  /\ UNCHANGED <<ociVars, notPull>>

\* after the loop: GetFilePathForMediaType of the disk and of the auxiliary
\* image, GetConfig; the first that fails is returned
Getters(outcome) ==
  /\ download.pc = "getters"
  /\ LET found == /\ store.mediaTypeToPath["disk"] # "none"
                  /\ store.mediaTypeToPath["aux"] # "none"
                  /\ store.mediaTypeToPath["config"] # "none"
                  /\ outcome = "nil" IN
       download' = [download EXCEPT !.pc = "close",
                      !.err = IF found THEN {} ELSE {"getter"}]
  /\ UNCHANGED <<ociVars, notPull>>

\* the deferred err = errors.Join(err, store.Close(ctx))
DeferredStoreClose(outcome) ==
  /\ download.pc = "close"
  /\ LET res == IF store.closed THEN "StoreClosed" ELSE outcome IN
       /\ ret' = [op |-> "Close", res |-> res]
       /\ store' = [store EXCEPT !.closed = TRUE]
       /\ download' = [download EXCEPT !.pc = "done",
                         !.err = IF res = "nil" THEN @ ELSE @ \cup {"close"}]
  /\ UNCHANGED <<pushes, notPull>>

NextDownload ==
  \/ \E outcome \in {"nil", "error"} : Download(outcome)
  \/ DownloadCtxCancel
  \/ BackoffLoop
  \/ Copy
  \/ \E outcome \in {"nil", "error"} : pull(outcome)
  \/ \E timer \in BOOLEAN : BackoffWait(timer)
  \/ \E outcome \in {"nil", "error"} : Getters(outcome)
  \/ \E outcome \in {"nil", "error"} : DeferredStoreClose(outcome)

(***************************************************************************)
(* Part F: the TTY of one exec session.  attach.Resize() is a channel the  *)
(* client sends its terminal sizes on: `resizes` are the messages offered  *)
(* so far, the first `received` of them were taken from the channel.       *)
(***************************************************************************)
\* api.TermSize: the sizes a client sends, a zero one among them
TermSizes ==
  {[Width |-> 0, Height |-> 0], [Width |-> 80, Height |-> 24],
   [Width |-> 100, Height |-> 40]}
NoSize == [Width |-> 0, Height |-> 0]

InitTTY ==
  session = [pc |-> "idle", tty |-> FALSE, ctxDone |-> FALSE,
             resizes |-> <<>>, received |-> 0, consoleSize |-> NoSize,
             resizer |-> "none", windowChanges |-> <<>>]

\* MacOSSession.SetupSessionIO of a session whose attach has a TTY or not
SetupSessionIO(tty) ==
  /\ session.pc = "idle"
  /\ session' = [session EXCEPT !.pc = "size", !.tty = tty]
  /\ UNCHANGED notTTY

\* the client's terminal is resized
ClientResize(size) ==
  /\ session.tty
  /\ Len(session.resizes) < MaxResizes
  /\ session' = [session EXCEPT !.resizes = Append(@, size)]
  /\ UNCHANGED notTTY

\* the ctx of the exec call is cancelled
SessionCtxCancel ==
  /\ session.pc # "idle"
  /\ ~session.ctxDone
  /\ session' = [session EXCEPT !.ctxDone = TRUE]
  /\ UNCHANGED notTTY

\* GetConsoleSize under the 5 s timeout: no TTY -> nil; select of a message
\* (it is the size) and of ctx.Done() (the default size); a size with a
\* zero side -> nil.  With nil SetupSessionIO returns without a TTY.
GetConsoleSize(timeout) ==
  /\ session.pc = "size"
  /\ IF ~session.tty
       THEN session' = [session EXCEPT !.pc = "done"]
       ELSE /\ IF timeout
                 THEN TRUE
                 ELSE session.received < Len(session.resizes)
            /\ LET termSize ==
                     IF timeout
                       THEN [Width |-> DefaultTermWidth,
                             Height |-> DefaultTermHeight]
                       ELSE session.resizes[session.received + 1]
                   n == IF timeout THEN session.received
                        ELSE session.received + 1 IN
                 session' =
                   IF termSize.Width # 0 /\ termSize.Height # 0
                     THEN [session EXCEPT !.received = n, !.pc = "pty",
                                          !.consoleSize = termSize]
                     ELSE [session EXCEPT !.received = n, !.pc = "done"]
  /\ UNCHANGED notTTY

\* setupTTYSession: session.RequestPty fails -> error; else
\* go node.HandleTerminalResizing(ctx, attach, session.WindowChange)
setupTTYSession(outcome) ==
  /\ session.pc = "pty"
  /\ session' = IF outcome = "error"
                  THEN [session EXCEPT !.pc = "failed"]
                  ELSE [session EXCEPT !.pc = "session",
                                       !.resizer = "select"]
  /\ UNCHANGED notTTY

\* HandleTerminalResizing: one select, then the function returns:
\* <-ctx.Done() -> return; a message -> resizeFunc(size), whose error is
\* logged
HandleTerminalResizing(fromCtx) ==
  /\ session.resizer = "select"
  /\ IF fromCtx
       THEN /\ session.ctxDone
            /\ session' = [session EXCEPT !.resizer = "returned"]
       ELSE /\ session.received < Len(session.resizes)
            /\ session' = [session EXCEPT
                 !.received = @ + 1,
                 !.windowChanges = Append(@, session.received + 1),
                 !.resizer = "returned"]
  /\ UNCHANGED notTTY

NextTTY ==
  \/ \E tty \in BOOLEAN : SetupSessionIO(tty)
  \/ \E size \in TermSizes : ClientResize(size)
  \/ SessionCtxCancel
  \/ \E timeout \in BOOLEAN : GetConsoleSize(timeout)
  \/ \E outcome \in {"nil", "error"} : setupTTYSession(outcome)
  \/ \E fromCtx \in BOOLEAN : HandleTerminalResizing(fromCtx)

(***************************************************************************)
(* Specifications.                                                         *)
(***************************************************************************)
Init == InitDL /\ InitVM /\ InitGrp /\ InitProv /\ InitStore /\ InitDownload
     /\ InitTTY

\* the download manager alone
SpecDL == Init /\ [][NextDL]_vars

\* Goroutines that can run are scheduled; a pull whose ctx is cancelled
\* returns.  A pull that is not cancelled may take forever (FetchReturn is
\* not fair), and callers need not cancel or call.
FairSpecDL ==
  /\ SpecDL
  /\ \A s \in Subs : WF_dlVars(SubStep(s))
  /\ \A c \in Cells : WF_dlVars(FetchAbort(c))
  /\ \A c \in Cells : WF_dlVars(FetchClose(c))

\* the VM resource manager; the download manager is seen through the
\* outcomes of Download
SpecVM == Init /\ [][NextVM]_vars

\* a host on which every pod but GP has been created and runs its machine
InitBusy ==
  /\ vmData = [p \in Pods |-> IF p = GP THEN NoInfo
                                ELSE [NewInfo EXCEPT !.inst = TRUE]]
  /\ counter = MaxPods - 1
  /\ vz = [p \in Pods |-> IF p = GP THEN "none" ELSE "running"]
  /\ taskPc = [p \in Pods |-> IF p = GP THEN "none" ELSE "exited"]
  /\ taskSnap = [p \in Pods |-> NoInfo]
  /\ taskErr = [p \in Pods |-> "nil"]
  /\ ctxDone = [p \in Pods |-> FALSE]
  /\ dlCancel = [p \in Pods |-> FALSE]
  /\ delPc = [d \in Dels |-> "idle"]
  /\ delPod = [d \in Dels |-> NoPod]
  /\ delInfo = [d \in Dels |-> NoInfo]
  /\ delErr = [d \in Dels |-> "nil"]
  /\ nFaults = 0
  /\ nDeletes = 0
  /\ nCancels = 0
  /\ events = [p \in Pods |-> {}]
  /\ ip = [p \in Pods |-> p # GP]

\* the virtualization group of pod GP over the resource managers, on an
\* empty host or on a busy one
InitHost ==
  \/ InitDL /\ InitVM /\ InitGrp /\ InitProv /\ InitStore /\ InitDownload
     /\ InitTTY
  \/ InitDL /\ InitBusy /\ InitGrp /\ InitProv /\ InitStore /\ InitDownload
     /\ InitTTY

SpecGrp == InitHost /\ [][NextGrp]_vars

\* the group, and a second create for its key while it is live
SpecDup == InitHost /\ [][NextDup]_vars

\* Goroutines that can run are scheduled.  Callers need not call, cancel or
\* delete, and the environment need not fail.
FairSpecVM ==
  /\ SpecVM
  /\ \A p \in Pods : WF_vars(TaskStep(p))
  /\ \A d \in Dels : WF_vars(DelStep(d))
  /\ \A d \in Dels : WF_vars(ClientDeleteReturns(d))

\* the virtualization group with every goroutine and every call in progress
\* scheduled; the calls of the environment (create, delete, the guest's
\* shutdown) are not forced
FairSpecGrp ==
  /\ SpecGrp
  /\ WF_vars(CreateStep)
  /\ WF_vars(ContainerStep)
  /\ WF_vars(TaskStep(GP))
  /\ \A d \in GrpDels : WF_vars(GroupDeleteStep(d))
  /\ WF_vars(DelStep(GD))
  /\ WF_vars(RemoveAllContainerInfo)
  /\ WF_vars(ContainerRemove)

\* the provider over the answers of its interfaces
SpecProv == Init /\ [][NextProv]_vars

\* one store under concurrent Push calls and the other calls
SpecStore == Init /\ [][NextStore]_vars

\* one Download call and the pushes of its pulls
SpecDownload == Init /\ [][NextDownload]_vars

\* one exec session and its client
SpecTTY == Init /\ [][NextTTY]_vars

\* SetupSessionIO runs on once called and the goroutine started for the
\* resizes is scheduled; the client need not resize and ctx need not end
FairSpecTTY ==
  /\ SpecTTY
  /\ \A timeout \in BOOLEAN : WF_ttyVars(GetConsoleSize(timeout))
  /\ WF_ttyVars(setupTTYSession("nil"))
  /\ \A fromCtx \in BOOLEAN : WF_ttyVars(HandleTerminalResizing(fromCtx))

(***************************************************************************)
(* Claims about the download manager.                                      *)
(***************************************************************************)
\* the subscriber is inside Download, past LoadOrStore and not yet returned
Attached(s) == subPc[s] \in {"add", "once", "wait", "leave", "delete", "cancel"}

\* the cell's fetch goroutine is executing Download(ctx, ...)
FetchExecuting(c) == fetchPc[c] = "running"

\* C1: subscribers whose Download calls for the ref overlap share one fetch
\* task (they are attached to the same cell), and each of them returns that
\* task's result, or Cancelled because its own ctx was cancelled.
C1_SingleFetchSharedResult ==
  \A s, t \in Subs :
    (Attached(s) /\ Attached(t)) =>
      /\ subCell[s] = subCell[t]
      /\ (subRet[s].kind = "ok" /\ subRet[t].kind = "ok") => subRet[s] = subRet[t]
      /\ subRet[s].kind = "canceled" => subCtxDone[s]

\* C2: at every moment at most one fetch task for the ref is executing.
C2_AtMostOneFetchExecuting ==
  Cardinality({c \in Cells : FetchExecuting(c)}) <= 1

\* C3: Download returns Cancelled to a subscriber only if that subscriber's
\* own ctx has been cancelled.
C3_CancelledOnlyByOwnCtx ==
  \A s \in Subs : subRet[s].kind = "canceled" => subCtxDone[s]

\* C23: when the ctx of an operation is cancelled and the downstream also
\* has an error or a result, what is reported is Cancelled: a subscriber
\* whose ctx is cancelled when its wait ends returns Cancelled, and a fetch
\* whose ctx is cancelled when the pull returns leaves Cancelled in the cell.
C23_CancelledWins ==
  [][/\ \A s \in Subs :
          (subPc[s] = "wait" /\ subPc'[s] = "leave" /\ subCtxDone[s])
            => subRet'[s].kind = "canceled"
     /\ \A c \in Cells :
          (fetchPc[c] = "running" /\ fetchPc'[c] = "returned" /\ dlCtxDone[c])
            => stateRes'[c] = "canceled"]_vars

\* C30: a cell leaves the map only when its subscriber count is zero (so
\* is the count when its cancel handle is fired), and no subscriber is
\* added to the count of a cell that is no longer the one in the map.
C30_RemovedOnlyWhenUnsubscribed ==
  [][/\ (downloads # NoCell /\ downloads' # downloads)
          => subscribers[downloads] = 0
     /\ \A s \in Subs :
          (subPc[s] = "cancel" /\ subPc'[s] = "returned")
            => subscribers[subCell[s]] = 0
     /\ \A c \in Cells :
          subscribers'[c] > subscribers[c] => downloads = c]_vars

\* the last subscriber of a started cell has left
LastSubscriberLeft(c) == onceDone[c] /\ subscribers[c] = 0

\* C4: whenever the subscriber count of a cell drops to zero, the cell's
\* cancel handle is fired and its fetch task eventually terminates.
C4_LastLeaveStopsFetch ==
  \A c \in Cells :
    LastSubscriberLeft(c) ~> (dlCtxDone[c] /\ fetchPc[c] = "finished")

\* C4 witness: the last subscriber left while the fetch was in flight, the
\* cancel handle fired and the fetch task ended with the cancellation.
C4_Witness ==
  \E c \in Cells :
    /\ LastSubscriberLeft(c)
    /\ dlCtxDone[c]
    /\ fetchPc[c] = "finished"
    /\ stateRes[c] = "canceled"
    /\ \E s \in Subs : subCell[s] = c /\ subPc[s] = "returned"

(***************************************************************************)
(* Claims about the VM resource manager.                                   *)
(***************************************************************************)
\* the derived state of the record stored for pod p
PodState(p) == State(vmData[p], vz[p])

\* the pods that have a record whose derived state is not Preparing
NonPreparing == {p \in Pods : vmData[p] # NoInfo /\ PodState(p) # "Preparing"}

\* the pods whose machine has been started and has not stopped
Started(p) == vz[p] \in {"starting", "running"}

\* C5: at any moment the number of VM records whose derived state is not
\* Preparing is at most MaxVirtualMachines.
C5_AtMostTwoNonPreparing == Cardinality(NonPreparing) <= MaxVirtualMachines

\* C5, as the spec's second sentence puts it: the admission gate lets at
\* most MaxVirtualMachines machines exist (started, not stopped) at once.
C5_AtMostTwoMachines ==
  Cardinality({p \in Pods : Started(p)}) <= MaxVirtualMachines

\* nothing has failed and no context has been cancelled
Quiet == nFaults = 0 /\ nCancels = 0

\* every pod has been created and counted, and every image is still fetched
BackToBack == \A p \in Pods : taskPc[p] \in {"cLoad", "cStore", "download"}

\* a DeleteVirtualMachine call has completed and removed the record of a
\* pod other than r whose machine had been built
DeletedOther(r) ==
  /\ nDeletes > 0
  /\ \A d \in Dels : delPc[d] = "idle"
  /\ \E p \in Pods \ {r} : vmData[p] = NoInfo /\ vz[p] # "none"

\* C6: three pods created back-to-back whose images download: two of them
\* eventually enter Starting; while two are started and nothing was deleted
\* the third stays Preparing; once one of the two is deleted the third
\* eventually enters Starting.
C6_ThirdPodWaitsForDelete ==
  /\ (BackToBack /\ Quiet /\ nDeletes = 0)
       ~> (Cardinality({p \in Pods : Started(p)}) >= 2
             \/ ~Quiet \/ nDeletes > 0)
  /\ [](\A r \in Pods :
          (/\ Quiet /\ nDeletes = 0
           /\ vmData[r] # NoInfo
           /\ Cardinality({p \in Pods \ {r} : Started(p)}) >= 2)
            => PodState(r) = "Preparing")
  /\ \A r \in Pods :
       (taskPc[r] \in {"gate", "gateWait"} /\ DeletedOther(r) /\ Quiet)
         ~> (Started(r) \/ ~Quiet)

\* what the VM substrate can report about an instance
VzStates == {"none", "stopped", "starting", "running", "stopping", "error"}

Rank(st) ==
  CASE st = "Preparing"   -> 0
    [] st = "Starting"    -> 1
    [] st = "Running"     -> 2
    [] st = "Terminating" -> 3
    [] st = "Terminated"  -> 4
    [] OTHER              -> 5

\* C12: the derived state of a stored record only moves forward in the order
\* Preparing, Starting, Running, Terminating, Terminated, or into Failed.
C12_StatesOnlyAdvance ==
  [][\A p \in Pods :
       (vmData[p] # NoInfo /\ vmData'[p] # NoInfo /\ PodState(p) # "Failed")
         => \/ State(vmData'[p], vz'[p]) = "Failed"
            \/ Rank(PodState(p)) <= Rank(State(vmData'[p], vz'[p]))]_vars

\* the post-start action of pod p has failed (the address was found, and the
\* task's err is set)
HookFailed(p) == ip[p] /\ taskErr[p] # "nil"

\* C13: when the post-start action fails, FailedPostStartHook is emitted and
\* the record is not marked Failed (its error stays unset).
C13_HookFailureNotFatal ==
  \A p \in Pods :
    HookFailed(p) =>
      /\ "FailedPostStartHook" \in events[p]
      /\ vmData[p] # NoInfo => vmData[p].err = "nil"

\* C14: a download that ends with cancellation emits no BackOff event; one
\* that ends with another error emits BackOffPullImage, and the record, once
\* the task is over, is Failed.
C14_BackOffUnlessCancelled ==
  /\ [][\A p \in Pods :
          (taskPc[p] = "download" /\ taskPc'[p] = "fLoad")
            => IF taskErr'[p] = "canceled"
                 THEN events'[p] = events[p]
                 ELSE "BackOffPullImage" \in events'[p]]_vars
  /\ [](\A p \in Pods :
          ("BackOffPullImage" \in events[p] /\ taskPc[p] = "exited"
             /\ vmData[p] # NoInfo)
            => PodState(p) = "Failed")

\* C14 witness: a download failed with an error that is not a cancellation,
\* BackOffPullImage was emitted and the record ended Failed.
C14_Witness ==
  \E p \in Pods :
    /\ "BackOffPullImage" \in events[p]
    /\ taskErr[p] = "error"
    /\ taskPc[p] = "exited"
    /\ vmData[p] # NoInfo
    /\ PodState(p) = "Failed"

\* C16: when a DeleteVirtualMachine call that found the record is over
\* without an error, the machine of the pod is stopped.
C16_DeleteLeavesMachineStopped ==
  [][\A d \in Dels :
       (delPc[d] \in {"remove", "decr"} /\ delPc'[d] = "done"
          /\ delErr[d] = "nil")
         => vz'[delPod[d]] \in {"none", "stopped"}]_vars

(***************************************************************************)
(* Claims about the pod phase of a virtualization group.                   *)
(***************************************************************************)
\* CreateVirtualizationGroup has returned nil and one of the two creation
\* goroutines has ended with an error
AsyncCreateFailed ==
  /\ crPc = "returned"
  /\ crErr = "nil"
  /\ \/ ctrData.present /\ ctrData.err
     \/ taskPc[GP] = "exited" /\ taskErr[GP] # "nil"

\* a DeleteVirtualizationGroup call has been made for the pod
DeleteCalled == \E d \in GrpDels : gdPc[d] # "idle"

\* C15: a failure in an asynchronous creation task (of the VM or of an
\* auxiliary container) does not fail the create call, which has returned
\* nil; instead the synthesized phase of the pod eventually becomes Failed
\* (unless the group is deleted first).
C15_AsyncFailureLeadsToFailed ==
  AsyncCreateFailed ~>
    (GroupPhase = "Failed" \/ DeleteCalled \/ GetVirtualizationGroup = "notfound")

(***************************************************************************)
(* Claims about the provider.                                              *)
(***************************************************************************)
\* C17: on pod delete the PreStop exec commands of the containers are
\* executed if and only if the phase of the pod is Running and the deletion
\* grace period is greater than 0: once the hooks are over, the commands
\* executed are those of all the containers that have one in that case, and
\* none in every other case.
C17_HooksIffRunningAndGrace ==
  /\ (pdPhase = "Running" /\ pdGrace > 0) \/ hooksRun = {}
  /\ pdPc \in {"delete", "k8s", "done"} =>
       hooksRun = IF pdPhase = "Running" /\ pdGrace > 0 THEN pdHooks ELSE {}

C17_Witness ==
  /\ pdPc = "done"
  /\ pdPhase = "Running"
  /\ pdGrace > 0
  /\ hooksRun = Containers

\* C18: the grace-0 delete of the pod in the control plane is issued only
\* after the delete of the virtualization group returned success and only
\* if no pre-stop hook failed; after a failed hook or a failed group delete
\* the handler ends without a control-plane delete.
C18_FastDeleteOnlyAfterCleanDrain ==
  /\ (pdPc = "k8s" \/ k8sDeleted) => (pdGrpRes = "nil" /\ hooksFailed = {})
  /\ k8sDeleted => k8sGrace = 0
  /\ (pdPc = "done" /\ (pdGrpRes = "error" \/ hooksFailed # {})) => ~k8sDeleted

C18_Witness ==
  /\ pdPc = "done"
  /\ k8sDeleted
  /\ hooksRun # {}
  /\ pdGrpRes = "nil"

\* C19: GetPodStatus calls the delete of the virtualization group, with the
\* default grace period of 10 seconds, if and only if the phase it
\* synthesized is Failed or Succeeded and the pod has no deletion timestamp.
C19_AutoCleanupIffTerminalAndNotDeleting ==
  /\ gsRet = "status" =>
       gsPhase = getPodPhaseFromVirtualizationGroup(gsVM, gsIP, gsCtrs)
  /\ gsPc = "done" =>
       (gsDeleted <=> /\ gsRet = "status"
                      /\ gsPhase \in {"Failed", "Succeeded"}
                      /\ ~gsDelTs)
  /\ gsDeleted => gsGrace = 10

C19_Witness ==
  /\ gsPc = "done"
  /\ gsDeleted
  /\ gsPhase = "Failed"
  /\ gsGrace = 10

\* the lists that hold the containers of groupContainers in any order
Reorderings(groupContainers) ==
  LET n == Len(groupContainers) IN
  {[i \in 1..n |-> groupContainers[f[i]]] :
     f \in {g \in [1..n -> 1..n] : \A i, j \in 1..n : g[i] = g[j] => i = j}}

\* C21: status synthesis is a function of the VM state, the container
\* states and the timestamps: the phase and the conditions a status query
\* returns are those it returns for the same VM and the same containers
\* enumerated in any other order.
C21_StatusIndependentOfEnumeration ==
  gsRet = "status" =>
    \A q \in Reorderings(gsCtrs) :
      /\ getPodPhaseFromVirtualizationGroup(gsVM, gsIP, q) = gsPhase
      /\ getPodConditionsFromVirtualizationGroup(gsVM, q) = gsConds

\* C22: PodReady is True only if the phase computed from the same VM state,
\* address and container states is Running.
C22_ReadyOnlyIfRunning ==
  (gsRet = "status" /\ gsConds.ready) => gsPhase = "Running"

\* the phase by the priority order of the rules, whatever the order of the
\* containers
PhaseByPriority(vmState, hasIP, groupContainers) ==
  LET statuses == {groupContainers[i] : i \in DOMAIN groupContainers} IN
  IF vmState \in {"Preparing", "Starting"} THEN "Pending"
  ELSE IF vmState = "Terminated" THEN "Succeeded"
  ELSE IF vmState = "Failed" THEN "Failed"
  ELSE IF statuses = {} THEN IF hasIP THEN "Running" ELSE "Pending"
  ELSE IF statuses \cap {"Waiting", "Created"} # {} THEN "Pending"
  ELSE IF statuses \cap {"OOMKilled", "Unknown"} # {} THEN "Failed"
  ELSE IF ~hasIP THEN "Pending"
  ELSE IF statuses = {"Running"} THEN "Running"
  ELSE "Unknown"

\* C20: the synthesized phase is Pending for a Preparing or Starting
\* machine, Succeeded for a Terminated and Failed for a Failed one; for a
\* Terminating or Running machine without auxiliary containers it is Running
\* with an address and Pending without; with auxiliary containers it is, in
\* this priority order, Pending if any is Waiting or Created, else Failed if
\* any is OOMKilled or Unknown, else Pending without an address, else
\* Running if all are Running, else Unknown.
C20_PhaseTable ==
  gsRet = "status" => gsPhase = PhaseByPriority(gsVM, gsIP, gsCtrs)


(***************************************************************************)
(* Claims about the OCI store.                                             *)
(***************************************************************************)
\* a push of the name of q, by another call, has returned nil
PushedBefore(q) ==
  \E o \in Pushers \ {q} :
    /\ pushes[o].pc = "returned"
    /\ pushes[o].ret = "nil"
    /\ pushes[o].name = pushes[q].name

\* the call q gets past the closed test of Push and returns in this step
PushEnds(q) ==
  /\ pushes[q].pc \in {"lock", "save", "verify"}
  /\ pushes'[q].pc = "returned"

C25_FailedPushLeavesNoTrace ==
  /\ [](\A q \in Pushers :
          (pushes[q].pc = "returned" /\ pushes[q].ret = "error")
            => store.digestToPath[q] = "none")
  /\ [][\A q \in Pushers :
          (PushEnds(q) /\ pushes'[q].ret = "error")
            => /\ store'.exists = store.exists
               /\ store'.mediaTypeToPath = store.mediaTypeToPath]_vars

\* C26: once the store is closed every call on it (push, fetch, exists,
\* resolve, tag, predecessors, add, set, the getters) is rejected with
\* StoreClosed and changes nothing.
C26_ClosedStoreRejectsAll ==
  [][store.closed =>
       /\ ret' # ret => (ret'.res = "StoreClosed" /\ store' = store)
       /\ \A q \in Pushers :
            (pushes[q].pc = "idle" /\ pushes'[q].pc # "idle")
              => pushes'[q].ret = "StoreClosed"]_vars

\* C27: Close on a store that is already closed succeeds and leaves the
\* store in the same closed state.
C27_CloseIsIdempotent ==
  [][(store.closed /\ ret' # ret /\ ret'.op = "Close")
       => (ret'.res = "nil" /\ store' = store)]_vars

(***************************************************************************)
(* Claims about downloader.Download.                                       *)
(***************************************************************************)
\* the retry loop has ended with nil: a pull succeeded
LoopSucceeded ==
  /\ download.pc \in {"getters", "close", "done"}
  /\ download.err \cap {"store", "timeout", "ctx"} = {}

\* C28: a Download makes at most 5 pulls; every failed pull emits one
\* FailedToPullImage event and, alone, does not end the loop (before the
\* fifth the loop goes on to its wait); when pull k is the first to succeed
\* the loop ends with nil after exactly k-1 events and Download returns nil
\* when the store then holds the images and the config and closes; when all
\* 5 pulls fail Download returns an error.
C28_AtMostFivePulls ==
  /\ [](/\ download.attempts <= DefaultMaxAttempts
        /\ download.events = IF LoopSucceeded THEN download.attempts - 1
                             ELSE download.attempts
        /\ (download.pc = "done" /\ download.err = {}) => LoopSucceeded
        /\ (download.pc = "done" /\ download.events = DefaultMaxAttempts)
             => download.err # {})
  /\ [][/\ (download.pc = "pull" /\ download'.events # download.events)
             => /\ download'.events = download.events + 1
                /\ download'.attempts = download.attempts + 1
                /\ download'.pc = IF download'.attempts < DefaultMaxAttempts
                                    THEN "backoff" ELSE "close"
        /\ (download.pc = "pull" /\ download'.pc = "getters")
             => /\ download'.events = download.attempts
                /\ download'.attempts = download.attempts + 1
        /\ (LoopSucceeded /\ download'.pc = "done" /\ download.err = {}
              /\ ret'.res = "nil")
             => download'.err = {}]_vars

\* the third pull was the first to succeed and Download has returned nil
C28_Witness ==
  /\ download.pc = "done"
  /\ download.err = {}
  /\ download.attempts = 3
  /\ download.events = 2


(***************************************************************************)
(* Claims about the TTY of an exec session.                                *)
(***************************************************************************)
\* C29: in a TTY session every resize message the client sends after the
\* one that gave the console size is given to WindowChange, unless the ctx
\* of the session ends.
C29_ResizesForwarded ==
  \A i \in 1..MaxResizes :
    [](/\ session.pc = "session"
       /\ Len(session.resizes) >= i
       /\ session.received < i
       => <>(\/ \E k \in 1..Len(session.windowChanges) :
                  session.windowChanges[k] = i
             \/ session.ctxDone))

(***************************************************************************)
(* Claims about the virtualization group.                                  *)
(***************************************************************************)
\* the DeleteVirtualizationGroup call of d has returned
Returned(d) == gdPc[d] = "returned"

\* C7: when DeleteVirtualizationGroup calls for the pod run concurrently,
\* the teardown is executed exactly once and the calls return the same
\* verdict.
C7_ConcurrentDeletesAgree ==
  /\ teardowns <= 1
  /\ overlap =>
       \A d, o \in GrpDels :
         (Returned(d) /\ Returned(o)) => gdRes[d] = gdRes[o]

\* C8: after a delete of the pod has returned ok, every later get returns
\* NotFound and every later delete returns ok.
C8_TeardownIsMonotonic ==
  /\ (\E d \in GrpDels : Returned(d) /\ gdRes[d] = "nil")
       => GetVirtualizationGroup = "notfound"
  /\ \A d \in GrpDels : (gdAfterOk[d] /\ Returned(d)) => gdRes[d] = "nil"

\* C9: at the step at which a delete of the pod that went through the
\* teardown returns, whatever its verdict, the group record and the VM
\* record of the pod are gone.
C9_DeleteRemovesRecords ==
  [][\A d \in GrpDels :
       (gdPc[d] = "select" /\ gdPc'[d] = "returned")
         => (~extras' /\ vmData'[GP] = NoInfo)]_vars

\* the create of the pod's group has returned an error
CreateFailed == crPc = "returned" /\ crErr = "error"

\* the create of the pod's group has returned nil and no teardown has begun
CreateAccepted == crPc = "returned" /\ crErr = "nil" /\ onceState = "new"

\* C10: the group record exists once the create is accepted and only while
\* a create is accepted or in progress; after a failed create the group's
\* ctx is cancelled, the root dir is gone, no record remains and
\* GetVirtualizationGroup returns NotFound.
C10_GroupExistsIffAccepted ==
  /\ CreateAccepted => extras
  /\ extras => crPc \in {"wait", "cleanKey"} \/ (crPc = "returned" /\ crErr = "nil")
  /\ CreateFailed =>
       /\ ctxDone[GP]
       /\ ~rootDir
       /\ ~extras
       /\ GetVirtualizationGroup = "notfound"


\* C31: in the teardown of the group the cancel handle fires first, then
\* the entry of the key is removed, then the root dir is deleted.
C31_TeardownOrder ==
  [][\A d \in GrpDels :
       /\ (gdPc[d] = "dKey" /\ gdPc'[d] = "dClose") => ctxDone[GP]
       /\ (gdPc[d] = "dRoot" /\ gdPc'[d] = "select")
            => ~extras /\ ctxDone[GP]]_vars

\* C32: a CreateVirtualizationGroup for the key of a live group returns
\* InvalidInput and leaves the group as it was: the key still maps to the
\* entry of the first call, the root dir exists, the group is found, and a
\* delete of it does not answer NotFound.
C32_DuplicateCreateLeavesGroup ==
  /\ dup.pc = "returned" => dup.err = "InvalidInput"
  /\ (dup.pc = "returned" /\ NoDeleteYet)
       => /\ extras /\ ~dup.stored
          /\ rootDir
          /\ GetVirtualizationGroup = "found"
  /\ \A d \in GrpDels :
       (dup.pc = "returned" /\ gdPc[d] = "returned" /\ ~overlap
          /\ ~gdAfterOk[d])
         => gdRes[d] # "notfound"

\* the teardown of the group is over and a delete of the pod has returned
PodDeleteCompleted ==
  /\ onceState = "done"
  /\ \E d \in GrpDels : gdPc[d] = "returned" /\ gdRes[d] # "notfound"

\* C33: once a delete of the pod has completed, no machine of the pod is
\* starting or running, and the creation task constructs and starts none
\* afterwards, wherever it was when the delete began.
C33_NoMachineAfterDelete ==
  /\ [](PodDeleteCompleted => vz[GP] \notin {"starting", "running"})
  /\ [][PodDeleteCompleted =>
          /\ (vz[GP] = "none" => vz'[GP] = "none")
          /\ vz'[GP] \notin {"starting", "running"}]_vars

(***************************************************************************)
(* Claims about the VM data store.                                         *)
(***************************************************************************)
\* C34: an update that races with the removal of the record does not put
\* the record back: a record enters the map only by the insert of a create.
C34_UpdateNeverReinserts ==
  [][\A p \in Pods :
       (vmData[p] = NoInfo /\ vmData'[p] # NoInfo) => taskPc[p] = "none"]_vars

\* no call on the store is in progress
Quiescent ==
  /\ \A p \in Pods : taskPc[p] \in {"none", "exited"}
  /\ \A d \in Dels : delPc[d] = "idle"

\* C35: in every quiescent state Count() is the number of records in the map.
C35_CountIsLen ==
  Quiescent => Count = Cardinality({p \in Pods : vmData[p] # NoInfo})

(***************************************************************************)
(* Claims about the container client.                                      *)
(***************************************************************************)
\* C36: once RemoveContainers of the pod has returned nil the pod has no
\* entry in ContainerData and no container in the daemon, whatever the
\* creation task of its container does afterwards.
C36_NoContainerAfterRemove ==
  (rcPc = "done" /\ rcErr = "nil") => ~ctrData.present /\ ~docker

(***************************************************************************)
(* Claims about the states a record derives during its creation.           *)
(***************************************************************************)
\* the creation task of p proceeds without error and has not called Start
BeforeStart(p) ==
  /\ taskPc[p] \in {"cLoad", "cStore", "download", "gate", "gateWait",
                    "setup", "iStore", "start"}
  /\ taskErr[p] = "nil"
  /\ vmData[p] # NoInfo
  /\ vmData[p].err = "nil"

\* C37: while the creation of a VM proceeds without error and Start has not
\* been called, the window after the construction of the instance included,
\* the record derives Preparing or Starting, so the phase of the pod is
\* Pending and GetPodStatus does not delete the pod.
C37_PendingUntilStart ==
  \A p \in Pods :
    BeforeStart(p) =>
      /\ State(vmData[p], vz[p]) \in {"Preparing", "Starting"}
      /\ getPodPhaseFromVirtualizationGroup(State(vmData[p], vz[p]), ip[p],
                                            <<>>) = "Pending"


(***************************************************************************)
(* Claims about the indexes of the store.                                  *)
(***************************************************************************)
\* the name the content of a digest was saved under
DigestName(d) ==
  IF d \in Pushers THEN pushes[d].name
  ELSE IF d = ConfigDigest THEN "config.json"
  ELSE IF d = AddDigest("disk") THEN "disk.img"
  ELSE IF d = AddDigest("aux") THEN "aux.img"
  ELSE "config.json"
\* the digest index has a path for content saved under the name n
InDigestIndex(n) ==
  \E d \in Digests : store.digestToPath[d] # "none" /\ DigestName(d) = n
\* the media type index has the path of the file of the name n
InMediaTypeIndex(n) ==
  \E mt \in MediaTypes : store.mediaTypeToPath[mt] = n

\* C38: every name whose status has exists = true, whether Push, Add or Set
\* set it, has its file recorded in both indexes: the digest index has a
\* path for its content and the media type index has the path of its file.
C38_ExistingNamesIndexed ==
  \A n \in Names :
    store.exists[n] => InDigestIndex(n) /\ InMediaTypeIndex(n)

(***************************************************************************)
(* Claims about the lock of a name.                                        *)
(***************************************************************************)
\* the call q is inside the critical section of Push, holding the lock
InPushSection(q) == pushes[q].pc \in {"save", "verify"}
\* the calls first and second push the same name concurrently: first holds
\* the lock of the name and second, past the closed test, waits for it
Contending(first, second) ==
  /\ first # second
  /\ InPushSection(first)
  /\ pushes[second].pc = "lock"
  /\ pushes[second].name = pushes[first].name
\* at most one push of a name is inside the critical section
OnePushPerName ==
  \A q, o \in Pushers :
    (InPushSection(q) /\ InPushSection(o) /\ pushes[q].name = pushes[o].name)
      => q = o
\* a push that takes the lock of a name whose status has exists = true
\* returns DuplicateName in that step, and exists is never reset
ExistingNameRefused ==
  /\ \A q \in Pushers :
       (pushes[q].pc = "lock" /\ pushes'[q].pc # "lock"
          /\ store.exists[pushes[q].name])
         => /\ pushes'[q].pc = "returned"
            /\ pushes'[q].ret = "DuplicateName"
  /\ \A n \in Names : store.exists[n] => store'.exists[n]

=============================================================================
